---- MODULE Spec2Model ----
(***************************************************************************)
(* Model of the compliance metric and reference-response engine of MTB     *)
(* (src/plotter): the cursor metric functions, the interval builder, the   *)
(* active-power ramp limiter and the droop / fault-current control laws.   *)
(*                                                                         *)
(* Numbers.  The source computes in floating point; the model computes in  *)
(* exact integer and rational arithmetic.  Table samples are integers in   *)
(* units of 0.01 (a sample 100 is 1.00 pu, 5000 is 50.00 Hz).  A rational  *)
(* is a pair <<num, den>>; den = 0 stands for numpy's non-finite results   *)
(* (inf for num # 0, nan for num = 0).                                     *)
(***************************************************************************)
EXTENDS Integers, Sequences, FiniteSets, TLC

VARIABLES
    cursorSignalsDf,   \* the cursor signal table: a sequence of columns
    metric,            \* the last metric call: kind, interval, settings, result
    time_ranges,       \* getTimeIntervals: the boundary list
    time_intervals,    \* getTimeIntervals: the list it returned
    ramp,              \* ramp generator: the case (family, Pref, Pstep, Tstep, Pn)
    rampT,             \* ramp generator: the pair of times <<earlier, later>>
    rampP,             \* ramp generator: the outputs at those two times
    law,               \* the last control-law call: function, arguments, result
    file,              \* result-file mapping: the directory entry being classified
    id,                \* result-file mapping: what idFile returned for it
    results,           \* result-file mapping: the map rank -> list of Results
    rawSigName,        \* name resolver: the signal name of the setup sheet
    colNames,          \* name resolver: per result kind, what getColNames returned
    filt,              \* the last call of a delay or low-pass filter: arguments, result
    cursorSheet,       \* cursor pass: the rows of cursorSetup.csv
    resultColumns,     \* cursor pass: the signal columns of the result table
    run,               \* cursor pass: position, exception, cursors read, cursor tables
    config,            \* rank scheduler: the configuration (config.threads)
    threads,           \* rank scheduler: the list of Thread objects, by rank
    sched,             \* rank scheduler: the threads not started yet
    inProg,            \* rank scheduler: the threads started and not yet reaped
    worker,            \* rank scheduler: per rank, the state of its drawPlot and
                       \* how often it was started
    main,              \* rank scheduler: position of the main thread
    lfsmRamp,          \* LFSM ramp generator: arguments read, locals, output so far
    LOG_FILE,          \* rank scheduler: the log sink of print and the writes it refused
    gen,               \* reference generator: arguments, locals of the FFC loop, returnDict
    cursorMetricText   \* addCursorMetrics: one pass of the inner loop and its text

vars ==
    <<cursorSignalsDf, metric, time_ranges, time_intervals, ramp, rampT, rampP, law,
      file, id, results, rawSigName, colNames,
      filt, cursorSheet, resultColumns, run,
      config, threads, sched, inProg, worker, main, lfsmRamp, LOG_FILE, gen,
      cursorMetricText>>

cursorVars == <<cursorSignalsDf, metric>>
intervalVars == <<time_ranges, time_intervals>>
rampVars == <<ramp, rampT, rampP>>
lawVars == <<law>>
fileVars == <<file, id, results>>
nameVars == <<rawSigName, colNames>>
filterVars == <<filt>>
passVars == <<cursorSheet, resultColumns, run>>
schedVars == <<config, threads, sched, inProg, worker, main, LOG_FILE>>
lfsmRampVars == <<lfsmRamp>>
genVars == <<gen>>
textVars == <<cursorMetricText>>

\* what the steps of one component leave alone: the state of the others
frameCursor == <<intervalVars, rampVars, lawVars, fileVars, nameVars, filterVars, passVars, schedVars,
      lfsmRampVars, genVars, textVars>>
frameIntervals == <<cursorVars, rampVars, lawVars, fileVars, nameVars, filterVars, passVars, schedVars,
      lfsmRampVars, genVars, textVars>>
frameRamp == <<cursorVars, intervalVars, lawVars, fileVars, nameVars, filterVars, passVars, schedVars,
      lfsmRampVars, genVars, textVars>>
frameLaws == <<cursorVars, intervalVars, rampVars, fileVars, nameVars, filterVars, passVars, schedVars,
      lfsmRampVars, genVars, textVars>>
frameFiles == <<cursorVars, intervalVars, rampVars, lawVars, nameVars, filterVars, passVars, schedVars,
      lfsmRampVars, genVars, textVars>>
frameNames == <<cursorVars, intervalVars, rampVars, lawVars, fileVars, filterVars, passVars, schedVars,
      lfsmRampVars, genVars, textVars>>
frameFilters == <<cursorVars, intervalVars, rampVars, lawVars, fileVars, nameVars, passVars, schedVars,
      lfsmRampVars, genVars, textVars>>
framePass ==
    <<cursorVars, intervalVars, rampVars, lawVars, fileVars, nameVars, filterVars, schedVars,
      lfsmRampVars, genVars, textVars>>
frameSched ==
    <<cursorVars, intervalVars, rampVars, lawVars, fileVars, nameVars, filterVars, passVars,
      lfsmRampVars, genVars, textVars>>
frameLfsmRamp ==
    <<cursorVars, intervalVars, rampVars, lawVars, fileVars, nameVars, filterVars, passVars,
      schedVars, genVars, textVars>>
frameGen ==
    <<cursorVars, intervalVars, rampVars, lawVars, fileVars, nameVars, filterVars, passVars,
      schedVars, lfsmRampVars, textVars>>
frameText ==
    <<cursorVars, intervalVars, rampVars, lawVars, fileVars, nameVars, filterVars, passVars,
      schedVars, lfsmRampVars, genVars>>

(***************************************************************************)
(* Bounds of the model                                                     *)
(***************************************************************************)
MaxLen == 3
MaxRanges == 4
MaxRampSamples == 8

(***************************************************************************)
(* Arithmetic helpers                                                      *)
(***************************************************************************)
Abs(x) == IF x < 0 THEN -x ELSE x

Sign(x) == IF x < 0 THEN -1 ELSE IF x > 0 THEN 1 ELSE 0

Min2(a, b) == IF a <= b THEN a ELSE b

Max2(a, b) == IF a >= b THEN a ELSE b

RECURSIVE GCD(_, _)
GCD(a, b) == IF b = 0 THEN a ELSE GCD(b, a % b)

\* A rational in lowest terms with a non-negative denominator.
Rat(n, d) ==
    IF d = 0 THEN <<Sign(n), 0>>
    ELSE LET g == GCD(Abs(n), Abs(d))
         IN  IF d < 0 THEN <<(-n) \div g, (-d) \div g>> ELSE <<n \div g, d \div g>>

RatFinite(q) == q[2] # 0

RatAdd(p, q) == Rat(p[1] * q[2] + q[1] * p[2], p[2] * q[2])

RatScale(k, q) == Rat(k * q[1], q[2])

\* p <= q for finite rationals (positive denominators)
RatLeq(p, q) == p[1] * q[2] <= q[1] * p[2]

RECURSIVE SeqSum(_)
SeqSum(s) == IF s = <<>> THEN 0 ELSE Head(s) + SeqSum(Tail(s))

RECURSIVE SeqMin(_)
SeqMin(s) == IF Len(s) = 1 THEN s[1] ELSE Min2(Head(s), SeqMin(Tail(s)))

RECURSIVE SeqMax(_)
SeqMax(s) == IF Len(s) = 1 THEN s[1] ELSE Max2(Head(s), SeqMax(Tail(s)))

\* numpy argmin / argmax: the index of the first occurrence of the extremum
ArgFirst(s, v) == CHOOSE i \in 1..Len(s) : s[i] = v /\ \A j \in 1..(i - 1) : s[j] # v

(***************************************************************************)
(* Metric results.  st is "ok", "nan" (the NaN sentinel) or "raise" (an    *)
(* exception leaves the function); n is the arity of the returned value    *)
(* (1 for a scalar, 2 for a pair); v holds the values when st = "ok".      *)
(***************************************************************************)
NaN == [st |-> "nan", n |-> 1, v |-> <<>>, exc |-> ""]

NaNPair == [st |-> "nan", n |-> 2, v |-> <<>>, exc |-> ""]

Ok1(a) == [st |-> "ok", n |-> 1, v |-> <<a>>, exc |-> ""]

Ok2(a, b) == [st |-> "ok", n |-> 2, v |-> <<a, b>>, exc |-> ""]

Raise(e) == [st |-> "raise", n |-> 0, v |-> <<>>, exc |-> e]

(***************************************************************************)
(* Windowed interval selection                                             *)
(***************************************************************************)
\* InMask with the closing boundary left out of the window
InMask_OpenEnd(tv, time_interval) ==
    IF Len(time_interval) = 2
    THEN tv >= time_interval[1] /\ tv < time_interval[2]
    ELSE tv >= time_interval[1]

\* mask = (t >= iv[0]) & (t <= iv[1]) if len(iv) == 2 else (t >= iv[0])
InMask(tv, time_interval) ==
    IF Len(time_interval) = 2
    THEN tv >= time_interval[1] /\ tv <= time_interval[2]
    ELSE tv >= time_interval[1]

RECURSIVE MaskFrom(_, _, _, _)
MaskFrom(col, t, time_interval, i) ==
    IF i > Len(t) THEN <<>>
    ELSE (IF InMask(t[i], time_interval) THEN <<col[i]>> ELSE <<>>)
         \o MaskFrom(col, t, time_interval, i + 1)

\* column c of the table restricted to the interval: col[mask], and the
\* whole column when the interval tuple is empty
Windowed(df, c, time_interval) ==
    IF Len(time_interval) > 0 THEN MaskFrom(df[c], df[1], time_interval, 1) ELSE df[c]

\* boolean-mask selection col[mask], the mask a sequence of booleans
RECURSIVE Pick(_, _, _)
Pick(col, mask, i) ==
    IF i > Len(col) THEN <<>>
    ELSE (IF mask[i] THEN <<col[i]>> ELSE <<>>) \o Pick(col, mask, i + 1)

(***************************************************************************)
(* Cursor metric functions                                                 *)
(***************************************************************************)
cursorStart(df, time_interval) ==
    IF Len(df) >= 2
    THEN LET t == Windowed(df, 1, time_interval)
             y == Windowed(df, 2, time_interval)
         IN  IF Len(t) > 0 THEN Ok2(t[1], y[1]) ELSE NaNPair
    ELSE NaNPair

cursorEnd(df, time_interval) ==
    IF Len(df) >= 2
    THEN LET t == Windowed(df, 1, time_interval)
             y == Windowed(df, 2, time_interval)
         IN  IF Len(t) > 0 THEN Ok2(t[Len(t)], y[Len(y)]) ELSE NaNPair
    ELSE NaNPair

\* cursorDelta taking the difference the wrong way round
cursorDelta_Reversed(df, time_interval) ==
    IF Len(df) >= 2
    THEN LET t == Windowed(df, 1, time_interval)
             y == Windowed(df, 2, time_interval)
         IN  IF Len(t) > 0 THEN Ok1(y[1] - y[Len(y)]) ELSE NaN
    ELSE NaN

cursorDelta(df, time_interval) ==
    IF Len(df) >= 2
    THEN LET t == Windowed(df, 1, time_interval)
             y == Windowed(df, 2, time_interval)
         IN  IF Len(t) > 0
             THEN LET y0 == y[1]
                      y1 == y[Len(y)]
                  IN  Ok1(y1 - y0)
             ELSE NaN
    ELSE NaN

cursorMin(df, time_interval) ==
    IF Len(df) >= 2
    THEN LET t == Windowed(df, 1, time_interval)
             y == Windowed(df, 2, time_interval)
         IN  IF Len(t) > 0
             THEN LET y_min == SeqMin(y)
                      t_min == t[ArgFirst(y, SeqMin(y))]
                  IN  Ok2(y_min, t_min)
             ELSE NaNPair
    ELSE NaNPair

cursorMax(df, time_interval) ==
    IF Len(df) >= 2
    THEN LET t == Windowed(df, 1, time_interval)
             y == Windowed(df, 2, time_interval)
         IN  IF Len(t) > 0
             THEN LET y_max == SeqMax(y)
                      t_max == t[ArgFirst(y, SeqMax(y))]
                  IN  Ok2(y_max, t_max)
             ELSE NaNPair
    ELSE NaNPair

\* y.mean() as the rational sum / count
cursorMean(df, time_interval) ==
    IF Len(df) >= 2
    THEN LET t == Windowed(df, 1, time_interval)
             y == Windowed(df, 2, time_interval)
         IN  IF Len(t) > 0 THEN Ok1(Rat(SeqSum(y), Len(y))) ELSE NaN
    ELSE NaN

(***************************************************************************)
(* np.gradient(y, t), edge_order 1: one-sided differences at the two ends, *)
(* the second-order non-uniform formula inside (it is the central          *)
(* difference when the spacing is uniform).                                *)
(***************************************************************************)
GradAt(y, t, i) ==
    LET n == Len(y)
    IN  IF i = 1 THEN Rat(y[2] - y[1], t[2] - t[1])
        ELSE IF i = n THEN Rat(y[n] - y[n - 1], t[n] - t[n - 1])
        ELSE LET dx1 == t[i] - t[i - 1]
                 dx2 == t[i + 1] - t[i]
             IN  Rat((dx1 * dx1) * y[i + 1] + (dx2 * dx2 - dx1 * dx1) * y[i]
                         - (dx2 * dx2) * y[i - 1],
                     dx1 * dx2 * (dx1 + dx2))

Gradient(y, t) == [i \in 1..Len(y) |-> GradAt(y, t, i)]

\* two samples of the window share a time: np.gradient divides by zero
ZeroSpacing(t) == \E i \in 1..(Len(t) - 1) : t[i + 1] = t[i]

RECURSIVE RatSeqMin(_)
RatSeqMin(g) ==
    IF Len(g) = 1 THEN g[1]
    ELSE LET m == RatSeqMin(Tail(g)) IN IF RatLeq(Head(g), m) THEN Head(g) ELSE m

RECURSIVE RatSeqMax(_)
RatSeqMax(g) ==
    IF Len(g) = 1 THEN g[1]
    ELSE LET m == RatSeqMax(Tail(g)) IN IF RatLeq(m, Head(g)) THEN Head(g) ELSE m

RECURSIVE RatSeqSum(_)
RatSeqSum(g) == IF g = <<>> THEN <<0, 1>> ELSE RatAdd(Head(g), RatSeqSum(Tail(g)))

\* A float is returned (no exception) that the model does not evaluate:
\* np.gradient divided by zero and the array holds inf / nan entries.
FloatUnevaluated == [st |-> "float", n |-> 1, v |-> <<>>, exc |-> ""]

\* np.gradient raises ValueError on fewer than edge_order + 1 = 2 samples
cursorGradMin(df, time_interval) ==
    IF Len(df) >= 2
    THEN LET t == Windowed(df, 1, time_interval)
             y == Windowed(df, 2, time_interval)
         IN  IF Len(t) > 0
             THEN IF Len(t) < 2 THEN Raise("ValueError")
                  ELSE IF ZeroSpacing(t) THEN FloatUnevaluated
                  ELSE Ok1(RatScale(60, RatSeqMin(Gradient(y, t))))
             ELSE NaN
    ELSE NaN

cursorGradMean(df, time_interval) ==
    IF Len(df) >= 2
    THEN LET t == Windowed(df, 1, time_interval)
             y == Windowed(df, 2, time_interval)
         IN  IF Len(t) > 0
             THEN IF Len(t) < 2 THEN Raise("ValueError")
                  ELSE IF ZeroSpacing(t) THEN FloatUnevaluated
                  ELSE LET sum == RatSeqSum(Gradient(y, t))
                       IN  Ok1(RatScale(60, Rat(sum[1], sum[2] * Len(y))))
             ELSE NaN
    ELSE NaN

cursorGradMax(df, time_interval) ==
    IF Len(df) >= 2
    THEN LET t == Windowed(df, 1, time_interval)
             y == Windowed(df, 2, time_interval)
         IN  IF Len(t) > 0
             THEN IF Len(t) < 2 THEN Raise("ValueError")
                  ELSE IF ZeroSpacing(t) THEN FloatUnevaluated
                  ELSE Ok1(RatScale(60, RatSeqMax(Gradient(y, t))))
             ELSE NaN
    ELSE NaN

\* The thresholds y0 + 0.1*dy and y0 + 0.9*dy are compared after scaling by 10.
cursorResponseDelay(df, time_interval) ==
    IF Len(df) >= 2
    THEN LET t == Windowed(df, 1, time_interval)
             y == Windowed(df, 2, time_interval)
         IN  IF Len(t) > 0
             THEN LET y0 == y[1]
                      y1 == y[Len(y)]
                      dy == y1 - y0
                      mask == [i \in 1..Len(y) |->
                                 IF dy > 0 THEN 10 * y[i] <= 10 * y0 + dy
                                           ELSE 10 * y[i] >= 10 * y0 + dy]
                      tm == Pick(t, mask, 1)
                  IN  IF Len(tm) = 0 THEN Raise("ValueError")
                      ELSE Ok1(SeqMax(tm) - SeqMin(tm))
             ELSE NaN
    ELSE NaN

\* cursorRiseFallTime without the "if len(t) > 0" guard: y[0] of an empty
\* window raises IndexError
cursorRiseFallTime_NoGuard(df, time_interval) ==
    IF Len(df) >= 2
    THEN LET t == Windowed(df, 1, time_interval)
             y == Windowed(df, 2, time_interval)
         IN  IF Len(t) = 0 THEN Raise("IndexError")
             ELSE LET y0 == y[1]
                      y1 == y[Len(y)]
                      dy == y1 - y0
                      mask == [i \in 1..Len(y) |->
                                 IF dy > 0
                                 THEN 10 * y[i] >= 10 * y0 + dy /\ 10 * y[i] <= 10 * y0 + 9 * dy
                                 ELSE 10 * y[i] <= 10 * y0 + dy /\ 10 * y[i] >= 10 * y0 + 9 * dy]
                      tm == Pick(t, mask, 1)
                  IN  IF Len(tm) = 0 THEN Raise("ValueError")
                      ELSE Ok2(dy, SeqMax(tm) - SeqMin(tm))
    ELSE NaNPair

\* t.max() of an empty selection raises ValueError
cursorRiseFallTime(df, time_interval) ==
    IF Len(df) >= 2
    THEN LET t == Windowed(df, 1, time_interval)
             y == Windowed(df, 2, time_interval)
         IN  IF Len(t) > 0
             THEN LET y0 == y[1]
                      y1 == y[Len(y)]
                      dy == y1 - y0
                      mask == [i \in 1..Len(y) |->
                                 IF dy > 0
                                 THEN 10 * y[i] >= 10 * y0 + dy /\ 10 * y[i] <= 10 * y0 + 9 * dy
                                 ELSE 10 * y[i] <= 10 * y0 + dy /\ 10 * y[i] >= 10 * y0 + 9 * dy]
                      tm == Pick(t, mask, 1)
                  IN  IF Len(tm) = 0 THEN Raise("ValueError")
                      ELSE Ok2(dy, SeqMax(tm) - SeqMin(tm))
             ELSE NaNPair
    ELSE NaNPair

\* y[-10:], the last ten samples (all of them when there are fewer)
LastTen(y) == SubSeq(y, Max2(1, Len(y) - 9), Len(y))

\* y1 = mean(y[-10:]) = s / k; |y - y1| >= |y1 - y0| * tol / 100 is compared
\* after multiplying both sides by 100 * k.
cursorSettlingTime(df, time_interval, tol) ==
    IF Len(df) >= 2
    THEN LET t == Windowed(df, 1, time_interval)
             y == Windowed(df, 2, time_interval)
         IN  IF Len(t) > 0
             THEN LET t0 == t[1]
                      y0 == y[1]
                      s == SeqSum(LastTen(y))
                      k == Len(LastTen(y))
                      outside_tol_band_mask ==
                          [i \in 1..Len(y) |->
                              100 * Abs(k * y[i] - s) >= Abs(s - k * y0) * tol]
                      tm == Pick(t, outside_tol_band_mask, 1)
                  IN  IF Len(tm) > 0 THEN Ok1(SeqMax(tm) - t0) ELSE Ok1(0)
             ELSE NaN
    ELSE NaN

\* zeta is 1.0 without overshoot; with overshoot it is
\* sqrt(A^2/(1+A^2)), A = ln(yOSRatio)/pi, which the model leaves as the
\* symbol <<0, 0>> (a function of the ratio returned beside it).
cursorPeakOvershoot(df, time_interval) ==
    IF Len(df) >= 2
    THEN LET t == Windowed(df, 1, time_interval)
             y == Windowed(df, 2, time_interval)
         IN  IF Len(t) > 0
             THEN LET y0 == y[1]
                      y1 == y[Len(y)]
                      dy == Abs(y1 - y0)
                      yOSRatio ==
                          IF y1 > y0
                          THEN IF SeqMax(y) > y1 THEN Rat(SeqMax(y) - y1, dy) ELSE <<0, 1>>
                          ELSE IF SeqMin(y) < y1 THEN Rat(Abs(SeqMin(y) - y1), dy) ELSE <<0, 1>>
                      zeta == IF yOSRatio[1] > 0 THEN <<0, 0>> ELSE <<1, 1>>
                  IN  Ok2(yOSRatio, zeta)
             ELSE NaNPair
    ELSE NaNPair

(***************************************************************************)
(* Droop and fault-current metrics: the table's second column is the power *)
(* or current, its third the frequency or voltage.  cfg carries the        *)
(* entries of settingsDict and caseDf the functions read: Area, Un [kV],   *)
(* FSMdeadband [0.01 Hz], DefaultQUdroop [%], U0 [0.01 pu], QUdroop0       *)
(* (0 stands for the text 'Default', otherwise the droop in %).            *)
(***************************************************************************)
fn == 5000

\* -100*(fnew - fn +/- db) / (fn*(Pnew - Pref)), P in 0.01 pu
cursorFSMDroop(df, time_interval, cfg) ==
    IF Len(df) >= 3
    THEN LET t == Windowed(df, 1, time_interval)
             p == Windowed(df, 2, time_interval)
             f == Windowed(df, 3, time_interval)
         IN  IF Len(t) > 0
             THEN LET db == cfg.FSMdeadband
                      first == Abs(fn - f[1]) < 1
                      fnew == IF first THEN f[Len(f)] ELSE f[1]
                      Pnew == IF first THEN p[Len(p)] ELSE p[1]
                      Pref == IF first THEN p[1] ELSE p[Len(p)]
                      df_ == fnew - fn
                  IN  IF Pnew = Pref THEN Ok1(<<1, 0>>)
                      ELSE IF df_ < 0
                           THEN Ok1(Rat(-10000 * (fnew - fn + db), fn * (Pnew - Pref)))
                           ELSE Ok1(Rat(-10000 * (fnew - fn - db), fn * (Pnew - Pref)))
             ELSE NaN
    ELSE NaN

cursoLFSMDroop(df, time_interval, cfg) ==
    IF Len(df) >= 3
    THEN LET t == Windowed(df, 1, time_interval)
             p == Windowed(df, 2, time_interval)
             f == Windowed(df, 3, time_interval)
         IN  IF Len(t) > 0
             THEN LET DK == IF cfg.Area = "DK1" THEN 1 ELSE 2
                      first == Abs(fn - f[1]) > 1
                      fnew == IF first THEN f[1] ELSE f[Len(f)]
                      Pnew == IF first THEN p[1] ELSE p[Len(p)]
                      Pref == IF first THEN p[Len(p)] ELSE p[1]
                      f1 == IF DK = 1 THEN (IF fnew > fn THEN 5020 ELSE 4980)
                                      ELSE (IF fnew > fn THEN 5050 ELSE 4950)
                  IN  IF Pnew = Pref THEN Ok1(<<1, 0>>)
                      ELSE Ok1(Rat(-10000 * (fnew - f1), fn * (Pnew - Pref)))
             ELSE NaN
    ELSE NaN

\* s = -100*du/Uref*Qnom/dq with Qnom = 0.33; a zero dq or Uref gives inf / nan
cursorQUDroop(df, time_interval, cfg) ==
    IF Len(df) >= 3
    THEN LET t == Windowed(df, 1, time_interval)
             q == Windowed(df, 2, time_interval)
             u == Windowed(df, 3, time_interval)
         IN  IF Len(t) > 0
             THEN LET Uref == cfg.U0
                      dq == q[Len(q)] - q[1]
                      du == u[Len(u)] - u[1]
                  IN  Ok1(Rat(-3300 * du, Uref * dq))
             ELSE NaN
    ELSE NaN

\* np.clip(x, -Qnom, Qnom) on a rational x in pu, Qnom = 33/100
ClipQnom(x) ==
    IF ~RatFinite(x) THEN (IF x[1] > 0 THEN <<33, 100>> ELSE IF x[1] < 0 THEN <<-33, 100>> ELSE x)
    ELSE IF RatLeq(x, <<-33, 100>>) THEN <<-33, 100>>
    ELSE IF RatLeq(<<33, 100>>, x) THEN <<33, 100>>
    ELSE x

\* dqReq = clip(-100*du/Uref*Qnom/s) [pu]; dqSSTol = 100*(dq - dqReq)/Qnom [%]
cursorQUSSTol(df, time_interval, cfg) ==
    IF Len(df) >= 3
    THEN LET t == Windowed(df, 1, time_interval)
             q == Windowed(df, 2, time_interval)
             u == Windowed(df, 3, time_interval)
         IN  IF Len(t) > 0
             THEN LET s == IF cfg.QUdroop0 = 0 THEN cfg.DefaultQUdroop ELSE cfg.QUdroop0
                      Uref == cfg.U0
                      dq == q[Len(q)] - q[1]
                      du == u[Len(u)] - u[1]
                      dqReq == ClipQnom(Rat(-33 * du, Uref * s))
                      dqSSTol == IF RatFinite(dqReq)
                                 THEN Rat(100 * (dq * dqReq[2] - 100 * dqReq[1]), 33 * dqReq[2])
                                 ELSE <<0, 0>>
                  IN  Ok2(dqReq, dqSSTol)
             ELSE NaNPair
    ELSE NaNPair

\* dFFC = -m*upos + c with (m, c) = (1/0.4, 2.25) or (1/0.35, 2.42857), upos in 0.01 pu
cursorDeltaFFC(df, time_interval, cfg) ==
    IF Len(df) >= 3
    THEN LET t == Windowed(df, 1, time_interval)
             i == Windowed(df, 2, time_interval)
             u == Windowed(df, 3, time_interval)
         IN  IF Len(t) > 0
             THEN LET DK == IF cfg.Area = "DK1" THEN 1 ELSE 2
                      DSO == cfg.Un < 110
                      wide == DK = 2 \/ DSO
                      vposFrtLimit == IF wide THEN 90 ELSE 85
                      upos == u[Len(u)]
                      iq0 == i[1]
                      diq == i[Len(i)] - iq0
                      dFFC == IF upos >= vposFrtLimit THEN <<0, 1>>
                              ELSE IF upos < vposFrtLimit /\ upos > 50
                                   THEN IF wide THEN Rat(2250 - 25 * upos, 1000)
                                        ELSE Rat(35 * 242857 - 100000 * upos, 3500000)
                                   ELSE <<1, 1>>
                  IN  Ok2(diq, dFFC)
             ELSE NaNPair
    ELSE NaNPair

(***************************************************************************)
(* The cursor engine as a state machine: a signal table handed to the      *)
(* engine, and one call of a metric function on it for one interval.       *)
(***************************************************************************)
TimeVals == {0, 1, 2}

YVals == {0, 50, 100}

AuxVals == {60, 5000}

\* interval boundaries as they come out of getTimeIntervals: (t0, t1) or (t0,)
Boundaries == {1, 2}

Intervals == {<<a, b>> : a \in Boundaries, b \in Boundaries} \cup {<<a>> : a \in Boundaries}

NonDecreasing(s) == \A i \in 1..(Len(s) - 1) : s[i] <= s[i + 1]

TimeCols(n) == {t \in [1..n -> TimeVals] : NonDecreasing(t)}

\* tables of one, two or three columns of n rows; the first is the time
TablesOfLen(n) ==
    {<<t>> : t \in TimeCols(n)}
    \cup {<<t, y>> : t \in TimeCols(n), y \in [1..n -> YVals]}
    \cup {<<t, y, a>> : t \in TimeCols(n), y \in [1..n -> YVals], a \in [1..n -> AuxVals]}

Tables == UNION {TablesOfLen(n) : n \in 0..MaxLen}

Cfg(area, un) ==
    [Area |-> area, Un |-> un, FSMdeadband |-> 1, DefaultQUdroop |-> 4,
     U0 |-> 100, QUdroop0 |-> 0]

Cfgs == {Cfg("DK1", 150), Cfg("DK2", 150), Cfg("DK1", 50)}

PlainMetrics ==
    {"cursorStart", "cursorEnd", "cursorDelta", "cursorMin", "cursorMax", "cursorMean",
     "cursorGradMin", "cursorGradMean", "cursorGradMax", "cursorResponseDelay",
     "cursorRiseFallTime", "cursorSettlingTime", "cursorPeakOvershoot"}

CfgMetrics ==
    {"cursorFSMDroop", "cursoLFSMDroop", "cursorQUDroop", "cursorQUSSTol", "cursorDeltaFFC"}

MetricFunctions == PlainMetrics \cup CfgMetrics

CallMetric(name, df, time_interval, cfg) ==
    CASE name = "cursorStart" -> cursorStart(df, time_interval)
      [] name = "cursorEnd" -> cursorEnd(df, time_interval)
      [] name = "cursorDelta" -> cursorDelta(df, time_interval)
      [] name = "cursorMin" -> cursorMin(df, time_interval)
      [] name = "cursorMax" -> cursorMax(df, time_interval)
      [] name = "cursorMean" -> cursorMean(df, time_interval)
      [] name = "cursorGradMin" -> cursorGradMin(df, time_interval)
      [] name = "cursorGradMean" -> cursorGradMean(df, time_interval)
      [] name = "cursorGradMax" -> cursorGradMax(df, time_interval)
      [] name = "cursorResponseDelay" -> cursorResponseDelay(df, time_interval)
      [] name = "cursorRiseFallTime" -> cursorRiseFallTime(df, time_interval)
      [] name = "cursorSettlingTime" -> cursorSettlingTime(df, time_interval, 2)
      [] name = "cursorPeakOvershoot" -> cursorPeakOvershoot(df, time_interval)
      [] name = "cursorFSMDroop" -> cursorFSMDroop(df, time_interval, cfg)
      [] name = "cursoLFSMDroop" -> cursoLFSMDroop(df, time_interval, cfg)
      [] name = "cursorQUDroop" -> cursorQUDroop(df, time_interval, cfg)
      [] name = "cursorQUSSTol" -> cursorQUSSTol(df, time_interval, cfg)
      [] name = "cursorDeltaFFC" -> cursorDeltaFFC(df, time_interval, cfg)

NoCall == [fun |-> "", time_interval |-> <<>>, cfg |-> Cfg("DK1", 150), res |-> NaN]

\* one metric function is called on the table for one interval
Evaluate ==
    /\ metric = NoCall
    /\ \E name \in MetricFunctions, iv \in Intervals, cfg \in Cfgs :
          /\ name \in PlainMetrics => cfg = Cfg("DK1", 150)
          /\ metric' = [fun |-> name, time_interval |-> iv, cfg |-> cfg,
                        res |-> CallMetric(name, cursorSignalsDf, iv, cfg)]
    /\ UNCHANGED <<cursorSignalsDf, frameCursor>>

IdleIntervals == time_ranges = <<>> /\ time_intervals = <<>>

IdleRamp == ramp = <<>> /\ rampT = <<>> /\ rampP = <<>>

NoLaw ==
    [fun |-> "", Pref |-> 0, f |-> 0, DK |-> 0, FSM |-> FALSE, s |-> 0, db |-> 0,
     Upos |-> 0, Iq0 |-> 0, DSO |-> FALSE, Uref |-> 0, Qref |-> 0, ret |-> 0]

IdleLaw == law = NoLaw

IdleFiles == file = <<>> /\ id = <<>> /\ results = <<>>

\* the components added to the model after the control laws are idle
IdleNames == rawSigName = <<>> /\ colNames = <<>>

NoFilter == [fun |-> "", x |-> <<>>, Td |-> 0, Ts |-> 0, fc |-> 0, fs |-> 0, ret |-> <<>>]

IdleFilters == filt = NoFilter

IdlePass == cursorSheet = <<>> /\ resultColumns = {} /\ run = <<>>

IdleSched ==
    /\ config = <<>> /\ threads = <<>> /\ sched = <<>> /\ inProg = <<>>
    /\ worker = <<>> /\ main = <<>> /\ LOG_FILE = <<>>

IdleLfsmRamp == lfsmRamp = <<>>

IdleGen == gen = <<>>

IdleText == cursorMetricText = <<>>

IdleRest ==
    /\ IdleFiles /\ IdleNames /\ IdleFilters /\ IdlePass /\ IdleSched /\ IdleLfsmRamp
    /\ IdleGen /\ IdleText

InitCursor ==
    /\ cursorSignalsDf \in Tables
    /\ metric = NoCall
    /\ IdleIntervals /\ IdleRamp /\ IdleLaw /\ IdleRest

NextCursor == Evaluate

SpecCursor == InitCursor /\ [][NextCursor]_vars

(***************************************************************************)
(* Claims on the cursor engine (SpecCursor)                                *)
(***************************************************************************)
Called == metric.fun # ""

\* the rows of the table the called interval selects, read off the time column
SelectedRows ==
    {i \in 1..Len(cursorSignalsDf[1]) :
        /\ cursorSignalsDf[1][i] >= metric.time_interval[1]
        /\ Len(metric.time_interval) = 2 => cursorSignalsDf[1][i] <= metric.time_interval[2]}

\* C1: whichever metric function is called, if the interval selects no sample
\* of the time column the function returns its NaN sentinel (NaN or a pair of
\* NaNs) and does not raise.
C1_EmptyWindowGivesNaN ==
    (Called /\ SelectedRows = {}) =>
        /\ metric.res.st = "nan"
        /\ metric.res \in {NaN, NaNPair}

C1_Witness ==
    /\ metric.fun = "cursorDeltaFFC"
    /\ Len(cursorSignalsDf) = 3
    /\ Len(cursorSignalsDf[1]) = MaxLen
    /\ SelectedRows = {}
    /\ metric.res = NaNPair

\* C2: on a closed interval [t0, t1], t0 <= t1, that selects at least one
\* sample (boundaries included), cursorMin returns a value <= every selected
\* sample and cursorMax a value >= every selected sample, each with the time
\* of a selected sample that holds the returned value.
C2_MinMaxBoundWindow ==
    (/\ metric.fun \in {"cursorMin", "cursorMax"}
     /\ Len(cursorSignalsDf) >= 2
     /\ Len(metric.time_interval) = 2
     /\ metric.time_interval[1] <= metric.time_interval[2]
     /\ SelectedRows # {}) =>
        /\ metric.res.st = "ok"
        /\ \A i \in SelectedRows :
              IF metric.fun = "cursorMin"
              THEN metric.res.v[1] <= cursorSignalsDf[2][i]
              ELSE metric.res.v[1] >= cursorSignalsDf[2][i]
        /\ \E i \in SelectedRows :
              /\ cursorSignalsDf[2][i] = metric.res.v[1]
              /\ cursorSignalsDf[1][i] = metric.res.v[2]

\* the minimum sits on the closing boundary of the interval, below the others
C2_Witness ==
    /\ metric.fun = "cursorMin"
    /\ Len(cursorSignalsDf) >= 2
    /\ Len(metric.time_interval) = 2
    /\ Cardinality(SelectedRows) >= 2
    /\ metric.res.st = "ok"
    /\ metric.res.v[2] = metric.time_interval[2]
    /\ \E i \in SelectedRows : cursorSignalsDf[2][i] > metric.res.v[1]

\* C3: on an interval that selects at least one sample, cursorDelta is the y
\* value of cursorEnd minus the y value of cursorStart.
C3_DeltaIsEndMinusStart ==
    (/\ metric.fun = "cursorDelta"
     /\ Len(cursorSignalsDf) >= 2
     /\ SelectedRows # {}) =>
        /\ metric.res.st = "ok"
        /\ cursorEnd(cursorSignalsDf, metric.time_interval).st = "ok"
        /\ cursorStart(cursorSignalsDf, metric.time_interval).st = "ok"
        /\ metric.res.v[1] = cursorEnd(cursorSignalsDf, metric.time_interval).v[2]
                             - cursorStart(cursorSignalsDf, metric.time_interval).v[2]

C3_Witness ==
    /\ metric.fun = "cursorDelta"
    /\ Cardinality(SelectedRows) >= 2
    /\ metric.res.st = "ok"
    /\ metric.res.v[1] < 0

(***************************************************************************)
(* getTimeIntervals                                                        *)
(***************************************************************************)
\* getTimeIntervals losing the unpaired last boundary
getTimeIntervals_NoTail(r) ==
    [i \in 1..(Len(r) \div 2) |-> <<r[2 * i - 1], r[2 * i]>>]

\* the loop appends (r[2i], r[2i+1]) for i = 0 .. len//2 - 1 (0-based), then
\* the 1-tuple (r[-1],) when the length is odd
getTimeIntervals(r) ==
    [i \in 1..(Len(r) \div 2) |-> <<r[2 * i - 1], r[2 * i]>>]
    \o (IF Len(r) % 2 = 1 THEN << <<r[Len(r)]>> >> ELSE <<>>)

RangeVals == {0, 1, 2}

RangeLists == UNION {[1..n -> RangeVals] : n \in 0..MaxRanges}

NotCalled == <<"not called">>

CallGetTimeIntervals ==
    /\ time_intervals = NotCalled
    /\ time_intervals' = <<"returned", getTimeIntervals(time_ranges)>>
    /\ UNCHANGED <<time_ranges, frameIntervals>>

IdleCursor == cursorSignalsDf = <<>> /\ metric = NoCall

InitIntervals ==
    /\ time_ranges \in RangeLists
    /\ time_intervals = NotCalled
    /\ IdleCursor /\ IdleRamp /\ IdleLaw /\ IdleRest

NextIntervals == CallGetTimeIntervals

SpecIntervals == InitIntervals /\ [][NextIntervals]_vars

Returned == time_intervals[1] = "returned"

RECURSIVE Flatten(_)
Flatten(ss) == IF ss = <<>> THEN <<>> ELSE Head(ss) \o Flatten(Tail(ss))

\* C4: for a boundary list r of length n, getTimeIntervals returns in order
\* the floor(n/2) closed intervals (r[2i], r[2i+1]) and, exactly when n is
\* odd, one final open interval (r[n-1],); every boundary is used in exactly
\* one interval; the empty list gives no interval.
C4_IntervalsPairBoundaries ==
    Returned =>
        LET r == time_ranges
            n == Len(time_ranges)
            out == time_intervals[2]
        IN  /\ Len(out) = (n \div 2) + (n % 2)
            /\ \A i \in 0..((n \div 2) - 1) : out[i + 1] = <<r[2 * i + 1], r[2 * i + 2]>>
            /\ (n % 2 = 1) <=> (Len(out) > 0 /\ Len(out[Len(out)]) = 1)
            /\ n % 2 = 1 => out[Len(out)] = <<r[n]>>
            /\ \A k \in 1..Len(out) : Len(out[k]) = 1 => k = Len(out)
            /\ Flatten(out) = r
            /\ n = 0 => out = <<>>

C4_Witness ==
    /\ Returned
    /\ Len(time_ranges) = 3
    /\ Len(time_intervals[2]) = 2
    /\ Len(time_intervals[2][1]) = 2
    /\ Len(time_intervals[2][2]) = 1

(***************************************************************************)
(* Active-power ramp limiter.  Power is an integer number of PuUnit-ths of *)
(* a pu, so that 0.00333333 pu/s, 1/300 pu/s and 1/Pn pu/s are integers;   *)
(* times are integer seconds.                                              *)
(***************************************************************************)
PuUnit == 300 * 1000000

\* 0.00333333 pu/s
mIdeal == 999999

\* idealPramp clamping at the target on the rising side only
idealPramp_NoFallClamp(Pref, Tstep, Pstep, t) ==
    IF Pstep > Pref
    THEN LET Pramp == IF t <= Tstep THEN Pref ELSE mIdeal * (t - Tstep) + Pref
         IN  IF Pramp >= Pstep THEN Pstep ELSE Pramp
    ELSE IF t <= Tstep THEN Pref ELSE (-mIdeal) * (t - Tstep) + Pref

idealPramp(Pref, Tstep, Pstep, t) ==
    IF Pstep > Pref
    THEN LET m == mIdeal
             Pramp == IF t <= Tstep THEN Pref ELSE m * (t - Tstep) + Pref
         IN  IF Pramp >= Pstep THEN Pstep ELSE Pramp
    ELSE LET m == -mIdeal
             Pramp == IF t <= Tstep THEN Pref ELSE m * (t - Tstep) + Pref
         IN  IF Pramp <= Pstep THEN Pstep ELSE Pramp

\* min(0.2, 60/Pn) pu/min, then /60: exact for the Pn of PnVals
guideRate(Pn) == Min2(PuUnit \div 5, 60 * (PuUnit \div Pn)) \div 60

guidePramp(Pref, Pn, Tstep, Pstep, t) ==
    IF Pstep > Pref
    THEN LET m == guideRate(Pn)
             Pramp == IF t <= Tstep THEN Pref ELSE m * (t - Tstep) + Pref
         IN  IF Pramp >= Pstep THEN Pstep ELSE Pramp
    ELSE LET m == -guideRate(Pn)
             Pramp == IF t <= Tstep THEN Pref ELSE m * (t - Tstep) + Pref
         IN  IF Pramp <= Pstep THEN Pstep ELSE Pramp

\* setpoints 0, 0.1 and 0.2 pu; nominal powers in MW; step times in s
PowerVals == {0, PuUnit \div 10, PuUnit \div 5}

PnVals == {100, 300, 600}

TstepVals == {0, 10, 25}

\* the time column of the result: a grid of 10 s
TimeGrid == {10 * k : k \in 0..MaxRampSamples}

RampCases ==
    [family : {"ideal", "guide"}, Pref : PowerVals, Pstep : PowerVals,
     Tstep : TstepVals, Pn : PnVals]

Pramp(c, t) ==
    IF c.family = "ideal"
    THEN idealPramp(c.Pref, c.Tstep, c.Pstep, t)
    ELSE guidePramp(c.Pref, c.Pn, c.Tstep, c.Pstep, t)

\* the generator evaluates the ramp at the next row of the time column; the
\* state keeps the last two rows evaluated
RampSample ==
    \E t \in TimeGrid :
       /\ rampT # <<>> => t > rampT[Len(rampT)]
       /\ rampT' = IF rampT = <<>> THEN <<t>> ELSE <<rampT[Len(rampT)], t>>
       /\ rampP' = IF rampP = <<>> THEN <<Pramp(ramp, t)>>
                                   ELSE <<rampP[Len(rampP)], Pramp(ramp, t)>>
       /\ UNCHANGED <<ramp, frameRamp>>

InitRamp ==
    /\ ramp \in RampCases
    /\ rampT = <<>>
    /\ rampP = <<>>
    /\ IdleCursor /\ time_ranges = <<>> /\ time_intervals = NotCalled /\ IdleLaw /\ IdleRest

NextRamp == RampSample

SpecRamp == InitRamp /\ [][NextRamp]_vars

\* C5: the ramp output is Pref at every t <= Tstep, lies between Pref and
\* Pstep inclusive at every t, and once it equals Pstep it equals Pstep at
\* every later time.
C5_RampHoldsBoundsAndStays ==
    /\ \A i \in 1..Len(rampT) :
          /\ rampT[i] <= ramp.Tstep => rampP[i] = ramp.Pref
          /\ Min2(ramp.Pref, ramp.Pstep) <= rampP[i]
          /\ rampP[i] <= Max2(ramp.Pref, ramp.Pstep)
    /\ (Len(rampT) = 2 /\ rampP[1] = ramp.Pstep) => rampP[2] = ramp.Pstep

\* a falling ramp that reached its target and stayed there
C5_Witness ==
    /\ Len(rampT) = 2
    /\ ramp.Pstep < ramp.Pref
    /\ rampT[1] > ramp.Tstep
    /\ rampP[1] = ramp.Pstep
    /\ rampP[2] = ramp.Pstep

\* C6: between any two times t1 < t2 the ramp output of either family
\* changes by at most min(0.2, 60/Pn)/60 pu/s times (t2 - t1).
C6_RampRateCapped ==
    Len(rampT) = 2 =>
        Abs(rampP[2] - rampP[1])
            <= (Min2(PuUnit \div 5, 60 * (PuUnit \div ramp.Pn)) \div 60) * (rampT[2] - rampT[1])

(***************************************************************************)
(* Droop laws.  Frequencies and deadbands are integers in 0.01 Hz, powers  *)
(* integers in 0.001 pu, droops in %.  100/s*(df)/fn*Pn with fn = 50 Hz    *)
(* and Pn = 1 pu is 20*df/s in these units: exact for the droops used (s   *)
(* divides 20).                                                            *)
(***************************************************************************)
DroopStep(s, dfc) == (20 * dfc) \div s

\* fsm of generate_ideal_output: the FSM slope without the +/-10 % clamp
fsm(Pref, f, DK, s, db) ==
    LET fRU == IF DK = 1 THEN 4980 ELSE 4950
        fRO == IF DK = 1 THEN 5020 ELSE 5050
        f1 == IF f < fRU THEN fRU ELSE f
        f2 == IF f1 > fRO THEN fRO ELSE f1
    IN  IF f2 < fn
        THEN (IF f2 < fn - db THEN Pref - DroopStep(s, f2 - fn + db) ELSE Pref)
        ELSE (IF f2 > fn + db THEN Pref - DroopStep(s, f2 - fn - db) ELSE Pref)

idealFSM(Pref, f, DK, s, db) ==
    LET fRU == IF DK = 1 THEN 4980 ELSE 4950
        fRO == IF DK = 1 THEN 5020 ELSE 5050
        f1 == IF f < fRU THEN fRU ELSE f
        f2 == IF f1 > fRO THEN fRO ELSE f1
        Pnew == IF f2 < fn
                THEN (IF f2 < fn - db THEN Pref - DroopStep(s, f2 - fn + db) ELSE Pref)
                ELSE (IF f2 > fn + db THEN Pref - DroopStep(s, f2 - fn - db) ELSE Pref)
        Pup == IF Pnew > Pref + 100 THEN Pref + 100 ELSE Pnew
    IN  IF Pup < Pref - 100 THEN Pref - 100 ELSE Pup

\* guideFSM clamping the rise only
guideFSM_NoLowerClamp(Pref, f, DK, s, db) ==
    LET Pnew == fsm(Pref, f, DK, s, db)
    IN  IF Pnew > Pref + 100 THEN Pref + 100 ELSE Pnew

guideFSM(Pref, f, DK, s, db) ==
    LET fRU == IF DK = 1 THEN 4980 ELSE 4950
        fRO == IF DK = 1 THEN 5020 ELSE 5050
        f1 == IF f < fRU THEN fRU ELSE f
        f2 == IF f1 > fRO THEN fRO ELSE f1
        Pnew == IF f2 < fn
                THEN (IF f2 < fn - db THEN Pref - DroopStep(s, f2 - fn + db) ELSE Pref)
                ELSE (IF f2 > fn + db THEN Pref - DroopStep(s, f2 - fn - db) ELSE Pref)
        Pup == IF Pnew > Pref + 100 THEN Pref + 100 ELSE Pnew
    IN  IF Pup < Pref - 100 THEN Pref - 100 ELSE Pup

\* the LFSM corner frequency f1 and droop s of the area
LfsmCorner(DK, f) ==
    IF DK = 1 THEN (IF f > fn THEN 5020 ELSE 4980) ELSE (IF f > fn THEN 5050 ELSE 4950)

LfsmDroop(DK) == IF DK = 1 THEN 5 ELSE 4

idealLFSM(Pref, f, DK, FSM, s_fsm, db) ==
    LET f1 == LfsmCorner(DK, f)
        s == LfsmDroop(DK)
        Pref2 == IF FSM THEN idealFSM(Pref, f, DK, s_fsm, db) ELSE Pref
        Pnew == IF (f > fn /\ f > f1) \/ (f < fn /\ f < f1)
                THEN Pref2 - DroopStep(s, f - f1)
                ELSE Pref2
    IN  IF Pnew >= 1000 THEN 1000 ELSE IF Pnew <= 0 THEN 0 ELSE Pnew

guideLFSM(Pref, f, DK, FSM, s_fsm, db) ==
    LET f1 == LfsmCorner(DK, f)
        s == LfsmDroop(DK)
        Pref2 == IF FSM THEN guideFSM(Pref, f, DK, s_fsm, db) ELSE Pref
        Pnew == IF (f > fn /\ f > f1) \/ (f < fn /\ f < f1)
                THEN Pref2 - DroopStep(s, f - f1)
                ELSE Pref2
    IN  IF Pnew >= 1000 THEN 1000 ELSE IF Pnew <= 0 THEN 0 ELSE Pnew

\* lfsm of generate_ideal_output: limited at 1.0 pu only
lfsm(Pref, f, DK, FSM, s_fsm, db) ==
    LET f1 == LfsmCorner(DK, f)
        s == LfsmDroop(DK)
        Pref2 == IF FSM THEN fsm(Pref, f, DK, s_fsm, db) ELSE Pref
        Pnew == IF (f > fn /\ f > f1) \/ (f < fn /\ f < f1)
                THEN Pref2 - DroopStep(s, f - f1)
                ELSE Pref2
    IN  IF Pnew > 1000 THEN 1000 ELSE Pnew

(***************************************************************************)
(* Fast-fault-current law.  Voltages are integers in 0.01 pu, currents     *)
(* integers in IqUnit-ths of a pu, which makes -1/0.4*U + 2.25 and         *)
(* -1/0.35*U + 2.42857 integers.                                           *)
(***************************************************************************)
IqUnit == 7 * 100000

\* the fault-ride-through threshold of idealFFC / guideFFC / idealQU / guideQU
FrtLimit(DK, DSO) == IF DK = 1 /\ ~DSO THEN 85 ELSE 90

\* idealFFC taking the saturated branch only below 0.4 pu
idealFFC_LateSaturation(Upos, Iq0, DK, DSO) ==
    IF Upos >= FrtLimit(DK, DSO) THEN Iq0
    ELSE IF Upos < FrtLimit(DK, DSO) /\ Upos > 40
         THEN IF DK = 2 \/ DSO
              THEN (9 * IqUnit) \div 4 - (IqUnit \div 40) * Upos + Iq0
              ELSE 242857 * (IqUnit \div 100000) - (IqUnit \div 35) * Upos + Iq0
         ELSE IqUnit + Iq0

idealFFC(Upos, Iq0, DK, DSO) ==
    LET vposFrtLimit == FrtLimit(DK, DSO)
    IN  IF Upos >= vposFrtLimit THEN Iq0
        ELSE IF Upos < vposFrtLimit /\ Upos > 50
             THEN IF DK = 2 \/ DSO
                  THEN (9 * IqUnit) \div 4 - (IqUnit \div 40) * Upos + Iq0
                  ELSE 242857 * (IqUnit \div 100000) - (IqUnit \div 35) * Upos + Iq0
             ELSE IqUnit + Iq0

guideFFC(Upos, Iq0, DK, DSO) ==
    LET vposFrtLimit == FrtLimit(DK, DSO)
    IN  IF Upos >= vposFrtLimit THEN Iq0
        ELSE IF Upos < vposFrtLimit /\ Upos > 50
             THEN IF DK = 2 \/ DSO
                  THEN (9 * IqUnit) \div 4 - (IqUnit \div 40) * Upos + Iq0
                  ELSE 242857 * (IqUnit \div 100000) - (IqUnit \div 35) * Upos + Iq0
             ELSE IqUnit + Iq0

\* ffc of generate_ideal_output, its iq_ffc component (id_ffc, a square root,
\* is not evaluated).  The threshold is 0.85 for DK1 whatever DSO is.
ffc(vpos_val, iq_val, DK, DSO) ==
    LET vposFrtLimit == IF DK = 1 THEN 85 ELSE 90
    IN  IF vpos_val >= vposFrtLimit THEN iq_val
        ELSE IF vpos_val < vposFrtLimit /\ vpos_val > 50
             THEN IF DK = 2 \/ DSO
                  THEN (9 * IqUnit) \div 4 - (IqUnit \div 40) * vpos_val
                  ELSE 242857 * (IqUnit \div 100000) - (IqUnit \div 35) * vpos_val
             ELSE IqUnit

(***************************************************************************)
(* Q(U) law.  Voltages are integers in 0.01 pu, Qref an integer in 0.01    *)
(* pu, the droop s in %.  The result is the rational Qref + dQ in pu,      *)
(* dQ = 100*dU/Uref*Qnom/s = 33*dU/(Uref*s), or +/-Qnom = +/-33/100.       *)
(***************************************************************************)
Qnom == <<33, 100>>

MinusQnom == <<-33, 100>>

\* p < q for finite rationals
RatLess(p, q) == p[1] * q[2] < q[1] * p[2]

\* idealQU without the clamp at -Qnom
idealQU_NoLowerClamp(Uref, Upos, s, Qref, DK, DSO) ==
    IF Upos < FrtLimit(DK, DSO) THEN Qnom
    ELSE LET QplusdQ == Rat(Qref * Uref * s + 3300 * (Uref - Upos), 100 * Uref * s)
         IN  IF RatLess(Qnom, QplusdQ) THEN Qnom ELSE QplusdQ

idealQU(Uref, Upos, s, Qref, DK, DSO) ==
    LET vposFrtLimit == FrtLimit(DK, DSO)
    IN  IF Upos < vposFrtLimit THEN Qnom
        ELSE LET dU == Uref - Upos
                 QplusdQ == Rat(Qref * Uref * s + 3300 * dU, 100 * Uref * s)
             IN  IF RatLess(Qnom, QplusdQ) THEN Qnom
                 ELSE IF RatLess(QplusdQ, MinusQnom) THEN MinusQnom
                 ELSE QplusdQ

guideQU(Uref, Upos, s, Qref, DK, DSO) ==
    LET vposFrtLimit == FrtLimit(DK, DSO)
    IN  IF Upos < vposFrtLimit THEN Qnom
        ELSE LET dU == Uref - Upos
                 QplusdQ == Rat(Qref * Uref * s + 3300 * dU, 100 * Uref * s)
             IN  IF RatLess(Qnom, QplusdQ) THEN Qnom
                 ELSE IF RatLess(QplusdQ, MinusQnom) THEN MinusQnom
                 ELSE QplusdQ

(***************************************************************************)
(* The control laws as a state machine: one call of a law with arguments   *)
(* from the sets below, and its return.                                    *)
(***************************************************************************)
PrefVals == {-100, 0, 100, 500, 1000, 1100}

FreqVals == {4900, 4950, 4979, 4980, 4999, 5000, 5001, 5020, 5021, 5050, 5100}

DbVals == {0, 1, 30}

SfsmVals == {2, 5, 10}

UposVals == {0, 30, 50, 51, 70, 84, 85, 89, 90, 100, 110}

Iq0Vals == {-(IqUnit \div 5), 0, IqUnit \div 10}

UrefVals == {100, 105}

SquVals == {2, 4, 10}

QrefVals == {-50, -20, 0, 20}

DKs == {1, 2}

CallLFSM ==
    /\ law = NoLaw
    /\ \E fun \in {"idealLFSM", "guideLFSM", "lfsm"}, Pref \in PrefVals, f \in FreqVals,
          DK \in DKs, FSM \in BOOLEAN, s_fsm \in SfsmVals, db \in DbVals :
          law' = [NoLaw EXCEPT !.fun = fun, !.Pref = Pref, !.f = f, !.DK = DK,
                      !.FSM = FSM, !.s = s_fsm, !.db = db,
                      !.ret = CASE fun = "idealLFSM" -> idealLFSM(Pref, f, DK, FSM, s_fsm, db)
                                [] fun = "guideLFSM" -> guideLFSM(Pref, f, DK, FSM, s_fsm, db)
                                [] fun = "lfsm" -> lfsm(Pref, f, DK, FSM, s_fsm, db)]
    /\ UNCHANGED frameLaws

CallFSM ==
    /\ law = NoLaw
    /\ \E fun \in {"idealFSM", "guideFSM", "fsm"}, Pref \in PrefVals, f \in FreqVals,
          DK \in DKs, s \in SfsmVals, db \in DbVals :
          law' = [NoLaw EXCEPT !.fun = fun, !.Pref = Pref, !.f = f, !.DK = DK,
                      !.s = s, !.db = db,
                      !.ret = CASE fun = "idealFSM" -> idealFSM(Pref, f, DK, s, db)
                                [] fun = "guideFSM" -> guideFSM(Pref, f, DK, s, db)
                                [] fun = "fsm" -> fsm(Pref, f, DK, s, db)]
    /\ UNCHANGED frameLaws

CallFFC ==
    /\ law = NoLaw
    /\ \E fun \in {"idealFFC", "guideFFC", "ffc"}, Upos \in UposVals, Iq0 \in Iq0Vals,
          DK \in DKs, DSO \in BOOLEAN :
          law' = [NoLaw EXCEPT !.fun = fun, !.Upos = Upos, !.Iq0 = Iq0, !.DK = DK,
                      !.DSO = DSO,
                      !.ret = CASE fun = "idealFFC" -> idealFFC(Upos, Iq0, DK, DSO)
                                [] fun = "guideFFC" -> guideFFC(Upos, Iq0, DK, DSO)
                                [] fun = "ffc" -> ffc(Upos, Iq0, DK, DSO)]
    /\ UNCHANGED frameLaws

CallQU ==
    /\ law = NoLaw
    /\ \E fun \in {"idealQU", "guideQU"}, Uref \in UrefVals, Upos \in UposVals,
          s \in SquVals, Qref \in QrefVals, DK \in DKs, DSO \in BOOLEAN :
          law' = [NoLaw EXCEPT !.fun = fun, !.Uref = Uref, !.Upos = Upos, !.s = s,
                      !.Qref = Qref, !.DK = DK, !.DSO = DSO,
                      !.ret = IF fun = "idealQU"
                              THEN idealQU(Uref, Upos, s, Qref, DK, DSO)
                              ELSE guideQU(Uref, Upos, s, Qref, DK, DSO)]
    /\ UNCHANGED frameLaws

ReturnLaw ==
    /\ law # NoLaw
    /\ law' = NoLaw
    /\ UNCHANGED frameLaws

InitLaws ==
    /\ law = NoLaw
    /\ IdleCursor /\ time_ranges = <<>> /\ time_intervals = NotCalled /\ IdleRamp /\ IdleRest

NextLaws == CallLFSM \/ CallFSM \/ CallFFC \/ CallQU \/ ReturnLaw

SpecLaws == InitLaws /\ [][NextLaws]_vars

\* C7: every implementation of the LFSM droop law (idealLFSM, guideLFSM and
\* lfsm), for DK in {1, 2} and any Pref, f, FSM, droop and deadband, returns
\* an active power in [0, 1] pu.
C7_LfsmWithinUnit ==
    law.fun \in {"idealLFSM", "guideLFSM", "lfsm"} => (0 <= law.ret /\ law.ret <= 1000)

\* C8: idealFSM and guideFSM return Pnew with |Pnew - Pref| <= 0.1 pu, and
\* Pnew = Pref whenever |f - 50 Hz| <= db.
C8_FsmWithinTenPercent ==
    law.fun \in {"idealFSM", "guideFSM"} =>
        /\ Abs(law.ret - law.Pref) <= 100
        /\ Abs(law.f - 5000) <= law.db => law.ret = law.Pref

\* the slope alone would take the power more than 0.1 pu down: the clamp acts
C8_Witness ==
    /\ law.fun = "guideFSM"
    /\ law.ret = law.Pref - 100
    /\ fsm(law.Pref, law.f, law.DK, law.s, law.db) < law.Pref - 100

\* C9 as stated: at Upos <= 0.5 pu every FFC law returns 1.0 pu whatever the
\* pre-fault current Iq0 is.
C9_FfcSaturatesAtOne ==
    (law.fun \in {"idealFFC", "guideFFC", "ffc"} /\ law.Upos <= 50) => law.ret = IqUnit

\* C9 as amended: at Upos <= 0.5 pu ffc returns 1.0 pu whatever Iq0 is, and
\* idealFFC and guideFFC return Iq0 + 1.0 pu (the required increase over the
\* pre-fault current is 1.0 pu whatever Iq0 is).
C9_FfcSaturatedIncrease ==
    law.Upos <= 50 =>
        /\ law.fun = "ffc" => law.ret = IqUnit
        /\ law.fun \in {"idealFFC", "guideFFC"} => law.ret = law.Iq0 + IqUnit

C9_Witness ==
    /\ law.fun = "idealFFC"
    /\ law.Upos = 50
    /\ law.Iq0 # 0
    /\ law.ret = law.Iq0 + IqUnit

\* C10: idealQU and guideQU return a reactive power in [-Qnom, +Qnom],
\* Qnom = 0.33 pu, and return +Qnom whenever Upos is below the
\* fault-ride-through threshold (0.85 pu for DK1 on a TSO connection, 0.9 pu
\* for DK2 or a DSO connection).
C10_QuWithinQnom ==
    law.fun \in {"idealQU", "guideQU"} =>
        /\ law.ret[2] > 0
        /\ -33 * law.ret[2] <= 100 * law.ret[1]
        /\ 100 * law.ret[1] <= 33 * law.ret[2]
        /\ law.Upos < (IF law.DK = 1 /\ ~law.DSO THEN 85 ELSE 90) => law.ret = <<33, 100>>

\* above the threshold with the droop law asking for less than -Qnom
C10_Witness ==
    /\ law.fun = "idealQU"
    /\ law.Upos >= 90
    /\ law.ret = <<-33, 100>>
    /\ 100 * (law.Qref * law.Uref * law.s + 3300 * (law.Uref - law.Upos))
           < -33 * (100 * law.Uref * law.s)

(***************************************************************************)
(* Result files (plotter.py).  A file name is a sequence of characters.    *)
(* idFile lower-cases the name, matches it against                         *)
(*     ^(\w+?)_([0-9]+).(inf|csv|psout|zip|gz|bz2|xz)$                     *)
(* and reads at most two lines of an .inf or .csv file.  A line is known   *)
(* by the marker it starts with.  None is the empty sequence <<>> and a    *)
(* value v is <<v>>.                                                       *)
(***************************************************************************)
MaxStem == 4

Lower_Identity(c) == c

\* str.lower on the characters of the model
Lower(c) ==
    CASE c = "P" -> "p"
      [] c = "S" -> "s"
      [] c = "O" -> "o"
      [] c = "U" -> "u"
      [] c = "T" -> "t"
      [] OTHER -> c

LowerSeq(name) == [k \in 1..Len(name) |-> Lower(name[k])]

Digits == {"0", "2", "7"}

DigitVal(c) == CASE c = "0" -> 0 [] c = "2" -> 2 [] c = "7" -> 7

\* \w of the pattern over the characters of the model: letters, digits, "_"
WordChar(c) ==
    c \in Digits \cup {"_", "p", "s", "o", "u", "t", "z", "i", "g", "b", "x", "n", "f",
                       "c", "v", "P", "S", "O", "U", "T"}

RECURSIVE IntOf(_)
\* int(match.group(2)): decimal value, leading zeros dropped
IntOf(ds) ==
    IF ds = <<>> THEN 0
    ELSE 10 * IntOf(SubSeq(ds, 1, Len(ds) - 1)) + DigitVal(ds[Len(ds)])

PatternExts ==
    {<<"i", "n", "f">>, <<"c", "s", "v">>, <<"p", "s", "o", "u", "t">>,
     <<"z", "i", "p">>, <<"g", "z">>, <<"b", "z", "2">>, <<"x", "z">>}

\* s[1..i] is group 1, s[i+1] is "_", s[i+2..j] is group 2, s[j+1] is the one
\* character the unescaped "." stands for and the rest is group 3
ReMatches(s, i, j) ==
    /\ i + 2 <= j
    /\ j + 1 <= Len(s)
    /\ s[i + 1] = "_"
    /\ \A k \in (i + 2)..j : s[k] \in Digits
    /\ \A k \in 1..i : WordChar(s[k])
    /\ SubSeq(s, j + 2, Len(s)) \in PatternExts

\* re.match: group 1 is lazy (shortest first), group 2 greedy (longest first)
ReMatch(s) ==
    LET n == Len(s)
        is == {i \in 1..n : \E j \in 1..n : ReMatches(s, i, j)}
    IN  IF is = {} THEN <<>>
        ELSE LET i == CHOOSE a \in is : \A b \in is : a <= b
                 js == {j \in 1..n : ReMatches(s, i, j)}
                 j == CHOOSE a \in js : \A b \in js : b <= a
             IN  <<i, j>>

NoneTuple == <<<<>>, <<>>, <<>>, <<>>, <<>>>>

Path == "dir"

\* idFile on the directory entry f = [name, firstLine, secondLine]; the
\* result carries the tuple returned and the number of lines read
idFile(f) ==
    LET lower == LowerSeq(f.name)
        match == ReMatch(lower)
    IN  IF match = <<>> THEN [ret |-> NoneTuple, reads |-> 0]
        ELSE LET rank == IntOf(SubSeq(lower, match[1] + 2, match[2]))
                 projectName == SubSeq(lower, 1, match[1])
                 bulkName == <<Path, projectName>>
                 fullpath == <<Path, f.name>>
                 ext == SubSeq(lower, match[2] + 2, Len(lower))
                 tuple(fileType) ==
                     <<<<fileType>>, <<rank>>, <<projectName>>, <<bulkName>>, <<fullpath>>>>
             IN  IF ext = <<"p", "s", "o", "u", "t">>
                 THEN [ret |-> tuple("EMT_PSOUT"), reads |-> 0]
                 ELSE IF ext \in {<<"z", "i", "p">>, <<"g", "z">>, <<"b", "z", "2">>, <<"x", "z">>}
                 THEN [ret |-> tuple("EMT_ZIP"), reads |-> 0]
                 ELSE IF ext = <<"i", "n", "f">> /\ f.firstLine = "PGB(1)"
                 THEN [ret |-> tuple("EMT_INF"), reads |-> 1]
                 ELSE IF ext = <<"c", "s", "v">> /\ f.firstLine = "time;"
                 THEN [ret |-> tuple("EMT_CSV"), reads |-> 1]
                 ELSE IF ext = <<"c", "s", "v">>
                 THEN IF f.secondLine = "\"b:tnow in s\""
                      THEN [ret |-> tuple("RMS"), reads |-> 2]
                      ELSE [ret |-> NoneTuple, reads |-> 2]
                 ELSE [ret |-> NoneTuple, reads |-> 1]

\* Result.__init__
Result(typ, rank, projectName, bulkname, fullpath, group) ==
    [typ |-> typ, rank |-> rank, projectName |-> projectName, bulkname |-> bulkname,
     fullpath |-> fullpath, group |-> group, shorthand |-> <<group, projectName>>]

StemChars == {"P", "_", "0", "7"}

Stems == UNION {[1..n -> StemChars] : n \in 0..MaxStem}

\* the character before the extension, and the extension as written
Separators == {<<".">>, <<"x">>}

WrittenExts == PatternExts \cup {<<"P", "S", "O", "U", "T">>, <<"t", "x", "t">>}

FirstLines == {"PGB(1)", "time;", "other"}

SecondLines == {"\"b:tnow in s\"", "other"}

TextExts == {<<"i", "n", "f">>, <<"c", "s", "v">>}

\* the lines of a file matter for the extensions idFile opens
Files(stems) ==
    {[name |-> st \o sep \o ext, firstLine |-> l1, secondLine |-> l2] :
        st \in stems, sep \in Separators, ext \in TextExts,
        l1 \in FirstLines, l2 \in SecondLines}
    \cup {[name |-> st \o sep \o ext, firstLine |-> "other", secondLine |-> "other"] :
             st \in stems, sep \in Separators, ext \in WrittenExts \ TextExts}

\* the map before this file: empty, or holding a Result of rank 7 already
EarlierResult ==
    Result("EMT_PSOUT", 7, <<"p">>, <<Path, <<"p">>>>,
           <<Path, <<"p", "_", "7", ".", "p", "s", "o", "u", "t">>>>, "g")

EarlierResults == {<<>>, 7 :> <<EarlierResult>>}

Unmapped == [ret |-> <<"not called">>, reads |-> 0]

\* one pass of the loop of mapResultFiles over the files of the directories
MapFile ==
    /\ id = Unmapped
    /\ \E r \in {idFile(file)} :
         LET typ == r.ret[1]
         IN  /\ id' = r
             /\ results' =
                 IF typ = <<>> \/ \E k \in 2..5 : r.ret[k] = <<>>
                 THEN results
                 ELSE LET newResult == Result(typ[1], r.ret[2][1], r.ret[3][1], r.ret[4][1],
                                              r.ret[5][1], "g")
                          rank == r.ret[2][1]
                      IN  IF rank \in DOMAIN results
                          THEN [results EXCEPT ![rank] = Append(@, newResult)]
                          ELSE results @@ (rank :> <<newResult>>)
    /\ UNCHANGED <<file, frameFiles>>

InitFiles ==
    /\ file \in Files(Stems)
    /\ id = Unmapped
    /\ results \in EarlierResults
    /\ IdleCursor /\ time_ranges = <<>> /\ time_intervals = NotCalled /\ IdleRamp /\ IdleLaw
    /\ IdleNames /\ IdleFilters /\ IdlePass /\ IdleSched /\ IdleLfsmRamp
    /\ IdleGen /\ IdleText

NextFiles == MapFile

SpecFiles == InitFiles /\ [][NextFiles]_vars

\* the file has been classified and mapped
Mapped == id # Unmapped

\* the letters of the model's names, upper case and lower case
CasePairs == {<<"P", "p">>, <<"S", "s">>, <<"O", "o">>, <<"U", "u">>, <<"T", "t">>}

\* a name with every upper-case letter replaced by its lower-case letter
InLowerCase(name) ==
    [k \in 1..Len(name) |->
        IF \E pr \in CasePairs : pr[1] = name[k]
        THEN (CHOOSE pr \in CasePairs : pr[1] = name[k])[2]
        ELSE name[k]]

\* the splits <<i, j>> of a name written <project>_<digits>.<ext>: name[1..i]
\* is <project>, name[i+2..j] is <digits>, name[j+1] is "." and the rest is
\* one of the known extensions in either case
FormSplits(name) ==
    {m \in (1..Len(name)) \X (1..Len(name)) :
        /\ m[1] + 2 <= m[2]
        /\ m[2] + 1 <= Len(name) /\ name[m[2] + 1] = "."
        /\ name[m[1] + 1] = "_"
        /\ \A k \in 1..m[1] : WordChar(name[k])
        /\ \A k \in (m[1] + 2)..m[2] : name[k] \in Digits
        /\ InLowerCase(SubSeq(name, m[2] + 2, Len(name))) \in PatternExts}

PsoutExt == <<"p", "s", "o", "u", "t">>

ZipExts == {<<"z", "i", "p">>, <<"g", "z">>, <<"b", "z", "2">>, <<"x", "z">>}

\* C11 as stated: a name <project>_<digits>.psout is classified EMT_PSOUT and
\* one with extension zip, gz, bz2 or xz EMT_ZIP, with rank the integer value
\* of <digits>, project name equal to the <project> part of the file name,
\* and no line of the file read.
C11_PsoutZipByNameAsWritten ==
    Mapped =>
        \A m \in FormSplits(file.name) :
            LET ext == SubSeq(file.name, m[2] + 2, Len(file.name))
            IN  ext \in {PsoutExt} \cup ZipExts =>
                    /\ id.ret[1] = <<IF ext = PsoutExt THEN "EMT_PSOUT" ELSE "EMT_ZIP">>
                    /\ id.ret[2] = <<IntOf(SubSeq(file.name, m[1] + 2, m[2]))>>
                    /\ id.ret[3] = <<SubSeq(file.name, 1, m[1])>>
                    /\ id.reads = 0

\* C11 as amended: the name is compared in lower case, so the extension may
\* be written in either case and the project name returned is the
\* lower-cased <project> part; the kind, the rank and reading no line are as
\* stated.
C11_PsoutZipByLoweredName ==
    Mapped =>
        \A m \in FormSplits(file.name) :
            LET ext == InLowerCase(SubSeq(file.name, m[2] + 2, Len(file.name)))
            IN  ext \in {PsoutExt} \cup ZipExts =>
                    /\ id.ret[1] = <<IF ext = PsoutExt THEN "EMT_PSOUT" ELSE "EMT_ZIP">>
                    /\ id.ret[2] = <<IntOf(SubSeq(file.name, m[1] + 2, m[2]))>>
                    /\ id.ret[3] = <<InLowerCase(SubSeq(file.name, 1, m[1]))>>
                    /\ id.reads = 0

\* P_07.psout: rank 7 with the leading zero dropped, project p
C11_Witness ==
    /\ Mapped
    /\ file.name = <<"P", "_", "0", "7", ".", "p", "s", "o", "u", "t">>
    /\ id.ret[1] = <<"EMT_PSOUT">>
    /\ id.ret[2] = <<7>>
    /\ id.ret[3] = <<<<"p">>>>
    /\ id.reads = 0

AllNone(t) == \A k \in 1..5 : t[k] = <<>>

NoneOfNone(t) == \A k \in 1..5 : t[k] # <<>>

\* the extension of a name of the form, lower-cased
FormExt(name) ==
    LET m == CHOOSE x \in FormSplits(name) : TRUE
    IN  InLowerCase(SubSeq(name, m[2] + 2, Len(name)))

\* C12 as stated: idFile returns a tuple with every component non-None or
\* every component None; all-None exactly when the name is not of the form
\* <project>_<rank>.<ext>, or the file is an .inf without the legacy marker
\* in its first line, or a .csv whose first line does not start with
\* 'time;' and whose second line lacks the RMS marker; mapResultFiles adds a
\* Result only for a classification that is not None.
C12_AllOrNoneByForm ==
    Mapped =>
        /\ AllNone(id.ret) \/ NoneOfNone(id.ret)
        /\ AllNone(id.ret) <=>
              \/ FormSplits(file.name) = {}
              \/ /\ FormSplits(file.name) # {}
                 /\ \/ FormExt(file.name) = <<"i", "n", "f">> /\ file.firstLine # "PGB(1)"
                    \/ /\ FormExt(file.name) = <<"c", "s", "v">>
                       /\ file.firstLine # "time;"
                       /\ file.secondLine # "\"b:tnow in s\""
        /\ AllNone(id.ret) => results \in EarlierResults

(***************************************************************************)
(* Signal names (process_results.py).  A name is a sequence of characters; *)
(* "\\" is the path separator, "#" and "$" are the marker characters.      *)
(***************************************************************************)
MaxSig == 4

RECURSIVE StripLeading(_, _)
\* while s.startswith(c): s = s[1:]
StripLeading(s, c) ==
    IF s # <<>> /\ s[1] = c THEN StripLeading(Tail(s), c) ELSE s

RECURSIVE Split(_, _)
\* str.split(sep): the segments between the occurrences of sep
Split(s, sep) ==
    IF \E k \in 1..Len(s) : s[k] = sep
    THEN LET k == CHOOSE a \in 1..Len(s) : s[a] = sep /\ \A b \in 1..(a - 1) : s[b] # sep
         IN  <<SubSeq(s, 1, k - 1)>> \o Split(SubSeq(s, k + 1, Len(s)), sep)
    ELSE <<s>>

\* str.replace(c, ''): every occurrence of c removed
Remove(s, c) == SelectSeq(s, LAMBDA x : x # c)

\* Result.shorthand of the result the name is resolved for: group\projectName
Shorthand == <<"g", "\\", "p">>

\* getColNames(rawSigName, result) for result.typ = typ
getColNames(raw, typ) ==
    LET stripped == StripLeading(raw, "#")
        splitSigName == Split(stripped, "\\")
        name == CASE typ = "RMS" -> stripped
                  [] typ \in {"EMT_INF", "EMT_CSV", "EMT_ZIP"} ->
                        LET parts == Split(raw, "\\") IN parts[Len(parts)]
                  [] typ = "EMT_PSOUT" -> raw
        sigColName ==
            IF typ = "RMS" /\ Len(splitSigName) = 2
            THEN <<"tuple", <<"#", "#">> \o splitSigName[1], splitSigName[2]>>
            ELSE <<"str", name>>
        sigDispName == Remove(Shorthand \o <<":">> \o Split(name, " ")[1], "$")
    IN  [sigColName |-> sigColName, sigDispName |-> sigDispName]

SigChars == {"a", "\\", " ", "#", "$"}

RawSigNames == UNION {[1..n -> SigChars] : n \in 0..MaxSig}

ResultTypes == {"RMS", "EMT_INF", "EMT_PSOUT", "EMT_CSV", "EMT_ZIP"}

\* the name is resolved for a result of one more kind
CallGetColNames ==
    \E typ \in ResultTypes \ DOMAIN colNames :
       /\ colNames' = colNames @@ (typ :> getColNames(rawSigName, typ))
       /\ UNCHANGED <<rawSigName, frameNames>>

InitNames ==
    /\ rawSigName \in RawSigNames
    /\ colNames = <<>>
    /\ IdleCursor /\ time_ranges = <<>> /\ time_intervals = NotCalled /\ IdleRamp /\ IdleLaw
    /\ IdleFiles /\ IdleFilters /\ IdlePass /\ IdleSched /\ IdleLfsmRamp
    /\ IdleGen /\ IdleText

NextNames == CallGetColNames

SpecNames == InitNames /\ [][NextNames]_vars

\* the display names the statement allows for a raw name: the first
\* space-delimited token after the shorthand, with the markers removed (the
\* "$" everywhere; the "#" at the front, everywhere or not at all)
DisplayNames(raw) ==
    LET token == Split(raw, " ")[1]
        front == Split(StripLeading(raw, "#"), " ")[1]
    IN  {Remove(Shorthand \o <<":">> \o t, "$") : t \in {token, front, Remove(token, "#")}}

EmtTypes == {"EMT_INF", "EMT_PSOUT", "EMT_CSV", "EMT_ZIP"}

\* C13: for every format kind getColNames returns the display name
\* <shorthand>:<first token of the raw signal name> with the marker
\* characters removed, so the same raw name gets the same display name
\* whichever EMT kind the result has.
C13_DisplayNameOfRawName ==
    /\ \A typ \in DOMAIN colNames : colNames[typ].sigDispName \in DisplayNames(rawSigName)
    /\ \A t1 \in DOMAIN colNames \cap EmtTypes, t2 \in DOMAIN colNames \cap EmtTypes :
          colNames[t1].sigDispName = colNames[t2].sigDispName

(***************************************************************************)
(* Delay and low-pass filter (ideal_functions.py, guide_functions.py).     *)
(* Times are integers in ms, samples are integers, filter coefficients and *)
(* filtered samples are exact rationals.  scipy's lfilter, lfiltic and     *)
(* bilinear are modelled by the difference equations they implement.       *)
(***************************************************************************)
MaxSamples == 4

RatMul(p, q) == Rat(p[1] * q[1], p[2] * q[2])

RatSub(p, q) == Rat(p[1] * q[2] - q[1] * p[2], p[2] * q[2])

\* round(n/d) of Python 3 for n >= 0, d > 0: to the nearest integer, a tie
\* to the even one
Round(n, d) ==
    LET q == n \div d
        r == n % d
    IN  IF 2 * r < d THEN q
        ELSE IF 2 * r > d THEN q + 1
        ELSE IF q % 2 = 0 THEN q ELSE q + 1

\* lfilter(b, [1.0], x): y[k] = sum over j of b[j] * x[k - j]
lfilterFIR(b, x) ==
    [k \in 1..Len(x) |->
        SeqSum([j \in 1..Len(b) |-> IF k - (j - 1) >= 1 THEN b[j] * x[k - (j - 1)] ELSE 0])]

delay_FloorSamples(x, Td, Ts) ==
    LET delay_samples == Td \div Ts
        b == [j \in 1..(delay_samples + 1) |-> IF j = delay_samples + 1 THEN 1 ELSE 0]
    IN  IF delay_samples = 0 THEN x ELSE lfilterFIR(b, x)

delay(x, Td, Ts) ==
    LET delay_samples == Round(Td, Ts)
        b == [j \in 1..(delay_samples + 1) |-> IF j = delay_samples + 1 THEN 1 ELSE 0]
    IN  IF delay_samples = 0 THEN x ELSE lfilterFIR(b, x)

guideDelay(x, Td, Ts) ==
    LET delay_samples == Round(Td, Ts)
        b == [j \in 1..(delay_samples + 1) |-> IF j = delay_samples + 1 THEN 1 ELSE 0]
    IN  IF delay_samples = 0 THEN x ELSE lfilterFIR(b, x)

\* np.pi, as a rational
Pi == <<22, 7>>

\* bilinear([0, wc], [1, wc], fs): wc / (s + wc) with s = 2 fs (z - 1) / (z + 1),
\* normalised to a[0] = 1
bilinear(wc, fs) ==
    LET den == RatAdd(wc, <<2 * fs, 1>>)
    IN  [b |-> <<RatMul(wc, <<den[2], den[1]>>), RatMul(wc, <<den[2], den[1]>>)>>,
         a |-> <<<<1, 1>>, RatMul(RatSub(wc, <<2 * fs, 1>>), <<den[2], den[1]>>)>>]

\* lfiltic(b, a, y, x) of a first-order filter: zi[0] = b[1] x[-1] - a[1] y[-1],
\* where x[-1] and y[-1] are the first elements of the arrays handed in
lfiltic(b, a, y, x) ==
    LET x1 == IF x = <<>> THEN 0 ELSE x[1]
        y1 == IF y = <<>> THEN 0 ELSE y[1]
    IN  RatSub(RatScale(x1, b[2]), RatScale(y1, a[2]))

RECURSIVE lfilter(_, _, _, _)
\* lfilter(b, a, x, zi) of a first-order filter, direct form II transposed:
\* y[k] = b[0] x[k] + z;  z = b[1] x[k] - a[1] y[k]
lfilter(b, a, x, zi) ==
    IF x = <<>> THEN <<>>
    ELSE LET y == RatAdd(RatScale(x[1], b[1]), zi)
             z == RatSub(RatScale(x[1], b[2]), RatMul(a[2], y))
         IN  <<y>> \o lfilter(b, a, Tail(x), z)

lpf_ZeroState(x, fc, fs) ==
    LET wc == RatScale(2 * fc, Pi)
        ba == bilinear(wc, fs)
    IN  lfilter(ba.b, ba.a, x, <<0, 1>>)

lpf(x, fc, fs) ==
    LET wc == RatScale(2 * fc, Pi)
        ba == bilinear(wc, fs)
        zi == lfiltic(ba.b, ba.a, x, x)
    IN  lfilter(ba.b, ba.a, x, zi)

guideLPF(x, fc, fs) ==
    LET wc == RatScale(2 * fc, Pi)
        ba == bilinear(wc, fs)
        zi == lfiltic(ba.b, ba.a, x, x)
    IN  lfilter(ba.b, ba.a, x, zi)

SampleVals == {0, 1, 3}

Signals == UNION {[1..n -> SampleVals] : n \in 0..MaxSamples}

\* delay and sampling times in ms; the quotients Td/Ts, ties included, are
\* exact in binary floating point
TdVals == {0, 500, 1500, 2500, 3000}

TsVals == {1000, 2000}

\* cut-off and sampling frequencies in Hz
FcVals == {7, 14}

FsVals == {11, 22, 66}

CallDelay ==
    /\ filt.fun = ""
    /\ \E fun \in {"delay", "guideDelay"}, x \in Signals, Td \in TdVals, Ts \in TsVals :
          filt' = [NoFilter EXCEPT !.fun = fun, !.x = x, !.Td = Td, !.Ts = Ts,
                       !.ret = IF fun = "delay" THEN delay(x, Td, Ts)
                                                ELSE guideDelay(x, Td, Ts)]
    /\ UNCHANGED frameFilters

CallLPF ==
    /\ filt.fun = ""
    /\ \E fun \in {"lpf", "guideLPF"}, x \in Signals, fc \in FcVals, fs \in FsVals :
          filt' = [NoFilter EXCEPT !.fun = fun, !.x = x, !.fc = fc, !.fs = fs,
                       !.ret = IF fun = "lpf" THEN lpf(x, fc, fs) ELSE guideLPF(x, fc, fs)]
    /\ UNCHANGED frameFilters

ReturnFilter ==
    /\ filt.fun # ""
    /\ filt' = NoFilter
    /\ UNCHANGED frameFilters

InitFilters ==
    /\ filt = NoFilter
    /\ IdleCursor /\ time_ranges = <<>> /\ time_intervals = NotCalled /\ IdleRamp /\ IdleLaw
    /\ IdleFiles /\ IdleNames /\ IdlePass /\ IdleSched /\ IdleLfsmRamp
    /\ IdleGen /\ IdleText

NextFilters == CallDelay \/ CallLPF \/ ReturnFilter

SpecFilters == InitFilters /\ [][NextFilters]_vars

\* N is the integer nearest to Td/Ts, a tie going to the even one
NearestSamples(N, Td, Ts) ==
    /\ 2 * Abs(Td - N * Ts) <= Ts
    /\ 2 * Abs(Td - N * Ts) = Ts => N % 2 = 0

\* C14: delay and guideDelay return a sequence as long as x with
\* output[k] = x[k - N] for k >= N and 0 before, N = round(Td/Ts); for N = 0
\* the output is x.
C14_DelayShiftsByN ==
    filt.fun \in {"delay", "guideDelay"} =>
        \A N \in 0..10 :
            NearestSamples(N, filt.Td, filt.Ts) =>
                /\ Len(filt.ret) = Len(filt.x)
                /\ \A k \in 1..Len(filt.x) :
                      filt.ret[k] = IF k - N >= 1 THEN filt.x[k - N] ELSE 0
                /\ N = 0 => filt.ret = filt.x

\* Td/Ts = 1.5 rounds to 2: two zeros, then the input two samples late
C14_Witness ==
    /\ filt.fun = "delay"
    /\ filt.Td = 1500 /\ filt.Ts = 1000
    /\ filt.x = <<1, 3, 1, 3>>
    /\ filt.ret = <<0, 0, 1, 3>>

\* C15: for a constant input lpf and guideLPF return the constant at every
\* sample, the first included.
C15_LpfHoldsConstant ==
    filt.fun \in {"lpf", "guideLPF"} =>
        ((\A k \in 1..Len(filt.x) : filt.x[k] = filt.x[1]) =>
            /\ Len(filt.ret) = Len(filt.x)
            /\ \A k \in 1..Len(filt.x) : filt.ret[k] = <<filt.x[1], 1>>)

C15_Witness ==
    /\ filt.fun = "lpf"
    /\ filt.fc = 7 /\ filt.fs = 66
    /\ filt.x = <<3, 3, 3, 3>>
    /\ filt.ret = <<<<3, 1>>, <<3, 1>>, <<3, 1>>, <<3, 1>>>>

(***************************************************************************)
(* The cursor pass of one rank: readCursorSetup turns the rows of the      *)
(* cursor sheet into cursors, setupCursorDataFrame builds one table per    *)
(* cursor with the interval labels, addCursorMetrics adds a metric column  *)
(* to each table.  A metric text is known by the kind evaluated, the       *)
(* interval, the columns the function was handed and whether it fell       *)
(* through to its sentinel for want of a column.                           *)
(***************************************************************************)
MaxCursors == 2

CursorType ==
    {"START", "END", "DELTA", "MIN", "MAX", "MEAN", "GRAD_MIN", "GRAD_MAX", "GRAD_MEAN",
     "RESPONSE", "RISE_FALL", "SETTLING", "OVERSHOOT", "FSM_DROOP", "LFSM_DROOP", "QU_T1",
     "QU_T2", "QU_DROOP", "QU_SS_TOL", "DELTA_FFC"}

\* str.upper on the tokens of the model
Upper(string) ==
    CASE string = "min" -> "MIN"
      [] string = "foo" -> "FOO"
      [] OTHER -> string

\* CursorType.from_string: the member, or ValueError
from_string(string) ==
    IF Upper(string) \in CursorType
    THEN [exc |-> "", option |-> Upper(string)]
    ELSE [exc |-> "ValueError", option |-> string]

\* readCursorSetup: every row parsed into a cursor, or the exception of the
\* first token that is not a member
readCursorSetup(rows) ==
    LET parsed(row) == [k \in 1..Len(row.cursor_options) |-> from_string(row.cursor_options[k])]
        bad == {i \in 1..Len(rows) :
                   \E k \in 1..Len(rows[i].cursor_options) : parsed(rows[i])[k].exc # ""}
    IN  IF bad # {}
        THEN [exc |-> "ValueError", rankList |-> <<>>]
        ELSE [exc |-> "",
              rankList |->
                 [i \in 1..Len(rows) |->
                     [cursor_options |->
                         [k \in 1..Len(rows[i].cursor_options) |-> parsed(rows[i])[k].option],
                      emt_signals |-> rows[i].emt_signals,
                      time_ranges |-> rows[i].time_ranges]]]

\* the label of an interval in the 'Cursor time intervals' column
IntervalLabel(interval) == <<"label", interval>>

\* setupCursorDataFrame: per cursor a table with one label per option and
\* interval
setupCursorDataFrame(ranksCursor) ==
    [i \in 1..Len(ranksCursor) |->
        LET ivs == getTimeIntervals(ranksCursor[i].time_ranges)
            nIv == Len(ivs)
            nOpt == Len(ranksCursor[i].cursor_options)
        IN  [labels |-> [r \in 1..(nOpt * nIv) |-> IntervalLabel(ivs[((r - 1) % nIv) + 1])],
             metrics |-> <<>>]]

\* getCursorSignals: the time column and, in the order declared, the signals
\* found in the result table
getCursorSignals(rawSigNames, columns) ==
    <<"t">> \o SelectSeq(rawSigNames, LAMBDA sig : sig \in columns)

ThreeColumnOptions == {"FSM_DROOP", "LFSM_DROOP", "QU_DROOP", "QU_SS_TOL", "DELTA_FFC"}

\* one pass of the inner loop of addCursorMetrics
MetricText(option, time_interval, df) ==
    IF option \in CursorType
    THEN [kind |-> option, time_interval |-> time_interval, y |-> df[2],
          aux |-> IF Len(df) >= 3 THEN df[3] ELSE "",
          sentinel |-> option \in ThreeColumnOptions /\ Len(df) < 3]
    ELSE [kind |-> "not defined", time_interval |-> time_interval, y |-> "", aux |-> "",
          sentinel |-> FALSE]

MetricData_IntervalMajor(cursor, df) ==
    LET ivs == getTimeIntervals(cursor.time_ranges)
        nOpt == Len(cursor.cursor_options)
    IN  [r \in 1..(nOpt * Len(ivs)) |->
            MetricText(cursor.cursor_options[((r - 1) % nOpt) + 1],
                       ivs[((r - 1) \div nOpt) + 1], df)]

\* cursorMetricData: option by option and, within an option, interval by
\* interval
MetricData(cursor, df) ==
    LET ivs == getTimeIntervals(cursor.time_ranges)
        nIv == Len(ivs)
    IN  [r \in 1..(Len(cursor.cursor_options) * nIv) |->
            MetricText(cursor.cursor_options[((r - 1) \div nIv) + 1],
                       ivs[((r - 1) % nIv) + 1], df)]

\* addCursorMetrics: a cursor whose signal table has more than one column
\* gets a metric column named after the table's second column
addCursorMetrics(ranksCursor, dfCursorsList, columns) ==
    [i \in 1..Len(ranksCursor) |->
        LET signalsDf == getCursorSignals(ranksCursor[i].emt_signals, columns)
        IN  IF Len(signalsDf) > 1
            THEN [dfCursorsList[i] EXCEPT
                     !.metrics = <<[name |-> signalsDf[2],
                                    data |-> MetricData(ranksCursor[i], signalsDf)]>>]
            ELSE dfCursorsList[i]]

OptionLists == {<<>>, <<"min">>, <<"MIN", "FSM_DROOP">>, <<"foo", "MIN">>}

SignalLists == {<<"P">>, <<"P", "f">>, <<"f", "P">>}

TimeRangeLists == {<<>>, <<1>>, <<1, 2, 3>>}

SheetRows == [cursor_options : OptionLists, emt_signals : SignalLists, time_ranges : TimeRangeLists]

Sheets == UNION {[1..n -> SheetRows] : n \in 1..MaxCursors}

ReadCursorSetup ==
    /\ run.pc = "read"
    /\ LET r == readCursorSetup(cursorSheet)
       IN  run' = IF r.exc # ""
                  THEN [run EXCEPT !.pc = "aborted", !.exc = r.exc]
                  ELSE [run EXCEPT !.pc = "setup", !.ranksCursor = r.rankList]
    /\ UNCHANGED <<cursorSheet, resultColumns, framePass>>

SetupCursorDataFrame ==
    /\ run.pc = "setup"
    /\ run' = [run EXCEPT !.pc = "metrics",
                          !.dfCursorsList = setupCursorDataFrame(run.ranksCursor)]
    /\ UNCHANGED <<cursorSheet, resultColumns, framePass>>

AddCursorMetrics ==
    /\ run.pc = "metrics"
    /\ run' = [run EXCEPT !.pc = "done",
                          !.dfCursorsList =
                              addCursorMetrics(run.ranksCursor, run.dfCursorsList, resultColumns)]
    /\ UNCHANGED <<cursorSheet, resultColumns, framePass>>

InitPass ==
    /\ cursorSheet \in Sheets
    /\ resultColumns \in SUBSET {"P", "f"}
    /\ run = [pc |-> "read", exc |-> "", ranksCursor |-> <<>>, dfCursorsList |-> <<>>]
    /\ IdleCursor /\ time_ranges = <<>> /\ time_intervals = NotCalled /\ IdleRamp /\ IdleLaw
    /\ IdleFiles /\ IdleNames /\ IdleFilters /\ IdleSched /\ IdleLfsmRamp
    /\ IdleGen /\ IdleText

NextPass == ReadCursorSetup \/ SetupCursorDataFrame \/ AddCursorMetrics

SpecPass == InitPass /\ [][NextPass]_vars

\* the tokens of the sheet that name no metric, whatever their case
UnknownTokens(row) ==
    {k \in 1..Len(row.cursor_options) : Upper(row.cursor_options[k]) \notin CursorType}

\* C16: a token that names no known metric does not abort the cursor pass;
\* it yields an error string as that metric's result, and the other kinds,
\* intervals and cursors are still evaluated.
C16_UnknownKindGivesErrorString ==
    /\ run.pc # "aborted"
    /\ run.pc = "done" =>
          \A i \in 1..Len(cursorSheet) :
              \A m \in 1..Len(run.dfCursorsList[i].metrics) :
                  LET data == run.dfCursorsList[i].metrics[m].data
                      nIv == Len(getTimeIntervals(cursorSheet[i].time_ranges))
                  IN  \A r \in 1..Len(data) :
                         (data[r].kind = "not defined")
                             <=> ((r - 1) \div nIv) + 1 \in UnknownTokens(cursorSheet[i])

\* C17: when a declared signal is absent from the result table the pass
\* does not raise; every metric value written for a cursor is computed from
\* the cursor's first declared signal, and a missing signal yields a
\* sentinel for just the values that need it.
C17_FirstSignalOrSentinel ==
    run.pc = "done" =>
        /\ run.exc = ""
        /\ \A i \in 1..Len(cursorSheet) :
              LET declared == cursorSheet[i].emt_signals
                  table == run.dfCursorsList[i]
                  opts == run.ranksCursor[i].cursor_options
                  nIv == Len(getTimeIntervals(cursorSheet[i].time_ranges))
              IN  \A o \in 1..Len(opts), k \in 1..nIv :
                      LET r == (o - 1) * nIv + k
                          needed == IF opts[o] \in ThreeColumnOptions
                                    THEN {declared[n] : n \in 1..Len(declared)}
                                    ELSE {declared[1]}
                      IN  /\ Len(table.metrics) = 1
                          /\ r \in DOMAIN table.metrics[1].data
                          /\ LET text == table.metrics[1].data[r]
                             IN  /\ text.sentinel <=> ~(needed \subseteq resultColumns)
                                 /\ ~text.sentinel => text.y = declared[1]

\* C18: the metric column of a cursor has (number of kinds) x (number of
\* intervals) entries, kind by kind in declaration order and within a kind
\* interval by interval, the same length and order as the label column: the
\* value in a row belongs to the interval labelled in that row.
C18_MetricRowsMatchLabels ==
    run.pc = "done" =>
        \A i \in 1..Len(cursorSheet) :
            \A m \in 1..Len(run.dfCursorsList[i].metrics) :
                LET data == run.dfCursorsList[i].metrics[m].data
                    labels == run.dfCursorsList[i].labels
                    opts == run.ranksCursor[i].cursor_options
                    ivs == getTimeIntervals(cursorSheet[i].time_ranges)
                IN  /\ Len(data) = Len(opts) * Len(ivs)
                    /\ Len(labels) = Len(data)
                    /\ \A o \in 1..Len(opts), k \in 1..Len(ivs) :
                          LET r == (o - 1) * Len(ivs) + k
                          IN  /\ data[r].kind = opts[o]
                              /\ data[r].time_interval = ivs[k]
                              /\ labels[r] = IntervalLabel(data[r].time_interval)

\* two kinds on the intervals (1, 2) and (3,): four rows
C18_Witness ==
    /\ run.pc = "done"
    /\ cursorSheet[1].cursor_options = <<"MIN", "FSM_DROOP">>
    /\ cursorSheet[1].time_ranges = <<1, 2, 3>>
    /\ Len(run.dfCursorsList[1].metrics) = 1
    /\ Len(run.dfCursorsList[1].metrics[1].data) = 4
    /\ run.dfCursorsList[1].metrics[1].data[3].kind = "FSM_DROOP"
    /\ run.dfCursorsList[1].labels[3] = IntervalLabel(<<1, 2>>)

(***************************************************************************)
(* Claim on cursorRiseFallTime (SpecCursor)                                *)
(***************************************************************************)
FirstSelected == CHOOSE i \in SelectedRows : \A j \in SelectedRows : i <= j

LastSelected == CHOOSE i \in SelectedRows : \A j \in SelectedRows : i >= j

StepOfWindow == cursorSignalsDf[2][LastSelected] - cursorSignalsDf[2][FirstSelected]

\* the selected rows whose y lies between the 10 % and the 90 % level
BandRows ==
    {i \in SelectedRows :
        LET y0 == cursorSignalsDf[2][FirstSelected]
            lo == 10 * y0 + StepOfWindow
            hi == 10 * y0 + 9 * StepOfWindow
            y == 10 * cursorSignalsDf[2][i]
        IN  IF StepOfWindow > 0 THEN lo <= y /\ y <= hi ELSE hi <= y /\ y <= lo}

\* C20: on a window with at least one sample and a non-zero step,
\* cursorRiseFallTime returns (dy, T), T being the time from the first to the
\* last sample between the 10 % and the 90 % level; for a step that jumps
\* directly from its initial to its final value it returns dy and T = 0.
C20_RiseFallTimeOfStep ==
    (/\ metric.fun = "cursorRiseFallTime"
     /\ Len(cursorSignalsDf) >= 2
     /\ SelectedRows # {}
     /\ StepOfWindow # 0) =>
        /\ metric.res.st = "ok"
        /\ metric.res.n = 2
        /\ metric.res.v[1] = StepOfWindow
        /\ IF BandRows = {}
           THEN metric.res.v[2] = 0
           ELSE \E i, j \in BandRows :
                   /\ \A k \in BandRows : i <= k /\ k <= j
                   /\ metric.res.v[2] = cursorSignalsDf[1][j] - cursorSignalsDf[1][i]

(***************************************************************************)
(* The rank scheduler of plotter.main (SpecSched)                          *)
(***************************************************************************)
MaxRanksMap == 3

MaxPool == 3

\* the keys of resultDict, in the order of the dict
RankKeys(n) == [k \in 1..n |-> k]

\* config.threads as read from the configuration: any integer
PoolSizes == 0..MaxPool

NewWorker == [st |-> "new", starts |-> 0]

\* list.remove(t): the list without the first occurrence of t
ListRemove(list, t) ==
    LET at == CHOOSE i \in 1..Len(list) : list[i] = t /\ \A j \in 1..(i - 1) : list[j] # t
    IN  SubSeq(list, 1, at - 1) \o SubSeq(list, at + 1, Len(list))

\* the inner while condition with one thread too many admitted
MayStart_OneMore(inProgress, scheduled, poolSize) ==
    Len(inProgress) <= poolSize /\ Len(scheduled) > 0

\* len(inProg) < config.threads and len(sched) > 0
MayStart(inProgress, scheduled, poolSize) ==
    Len(inProgress) < poolSize /\ Len(scheduled) > 0

\* for rank in resultDict.keys(): a Thread is created, or drawPlot is called
\* in the main thread
ForRank ==
    /\ main.pc = "for"
    /\ main.todo # <<>>
    /\ LET rank == Head(main.todo)
       IN  IF config.threads > 1
           THEN /\ threads' = Append(threads, rank)
                /\ main' = [main EXCEPT !.todo = Tail(main.todo)]
                /\ UNCHANGED worker
           ELSE /\ worker' = [worker EXCEPT ![rank] = [st |-> "inline", starts |-> @.starts + 1]]
                /\ main' = [main EXCEPT !.pc = "drawPlot"]
                /\ UNCHANGED threads
    /\ UNCHANGED <<config, sched, inProg, LOG_FILE, frameSched>>

\* drawPlot called in the main thread returns
DrawPlotReturns ==
    /\ main.pc = "drawPlot"
    /\ worker' = [worker EXCEPT ![Head(main.todo)].st = "done"]
    /\ main' = [main EXCEPT !.pc = "for", !.todo = Tail(main.todo)]
    /\ UNCHANGED <<config, threads, sched, inProg, LOG_FILE, frameSched>>

\* drawPlot called in the main thread raises: nothing in main catches it
DrawPlotRaises ==
    /\ main.pc = "drawPlot"
    /\ worker' = [worker EXCEPT ![Head(main.todo)].st = "done"]
    /\ main' = [main EXCEPT !.pc = "aborted"]
    /\ UNCHANGED <<config, threads, sched, inProg, LOG_FILE, frameSched>>

\* NoT = len(threads); if NoT > 0: sched = threads.copy(); inProg = []
ForDone ==
    /\ main.pc = "for"
    /\ main.todo = <<>>
    /\ IF Len(threads) > 0
       THEN /\ sched' = threads
            /\ inProg' = <<>>
            /\ main' = [main EXCEPT !.pc = "while"]
       ELSE /\ main' = [main EXCEPT !.pc = "finished"]
            /\ UNCHANGED <<sched, inProg>>
    /\ UNCHANGED <<config, threads, worker, LOG_FILE, frameSched>>

\* while len(sched) > 0
WhileSched ==
    /\ main.pc = "while"
    /\ main' = [main EXCEPT !.pc = IF Len(sched) > 0 THEN "reap" ELSE "finished", !.i = 1]
    /\ UNCHANGED <<config, threads, sched, inProg, worker, LOG_FILE, frameSched>>

\* for t in inProg: if not t.is_alive(): inProg.remove(t)
\* The list iterator keeps an index into the list it is shrinking.
Reap ==
    /\ main.pc = "reap"
    /\ IF main.i <= Len(inProg)
       THEN LET t == inProg[main.i]
            IN  /\ inProg' = IF worker[t].st # "alive" THEN ListRemove(inProg, t) ELSE inProg
                /\ main' = [main EXCEPT !.i = @ + 1]
       ELSE /\ main' = [main EXCEPT !.pc = "fill"]
            /\ UNCHANGED inProg
    /\ UNCHANGED <<config, threads, sched, worker, LOG_FILE, frameSched>>

\* while len(inProg) < config.threads and len(sched) > 0:
\*     nextThread = sched.pop(); nextThread.start(); inProg.append(nextThread)
Fill ==
    /\ main.pc = "fill"
    /\ IF MayStart(inProg, sched, config.threads)
       THEN LET nextThread == sched[Len(sched)]
            IN  /\ sched' = SubSeq(sched, 1, Len(sched) - 1)
                /\ worker' = [worker EXCEPT ![nextThread] =
                                 [st |-> "alive", starts |-> @.starts + 1]]
                /\ inProg' = Append(inProg, nextThread)
                /\ UNCHANGED main
       ELSE /\ main' = [main EXCEPT !.pc = "sleep"]
            /\ UNCHANGED <<sched, inProg, worker>>
    /\ UNCHANGED <<config, threads, LOG_FILE, frameSched>>

\* time.sleep(0.5)
Sleep ==
    /\ main.pc = "sleep"
    /\ main' = [main EXCEPT !.pc = "while"]
    /\ UNCHANGED <<config, threads, sched, inProg, worker, LOG_FILE, frameSched>>

\* print: the text goes to stdout and, LOG_FILE being an open or a closed
\* file object, to LOG_FILE.write; on a closed file write raises ValueError,
\* which the bare except swallows
print(log, rank) ==
    IF log.closed THEN [log EXCEPT !.refused = @ \cup {rank}] ELSE log

\* a started thread leaves drawPlot: by return, after its last print
\* ('Plot for Rank ... done.'), or by exception
ThreadEnds ==
    /\ \E rank \in DOMAIN worker, returns \in BOOLEAN :
          /\ worker[rank].st = "alive"
          /\ worker' = [worker EXCEPT ![rank].st = "done"]
          /\ LOG_FILE' = IF returns THEN print(LOG_FILE, rank) ELSE LOG_FILE
    /\ UNCHANGED <<config, threads, sched, inProg, main, frameSched>>

\* main has returned: the module runs LOG_FILE.close().  The interpreter
\* waits for the threads still running only after the module is through.
CloseLog ==
    /\ main.pc = "finished"
    /\ main' = [main EXCEPT !.pc = "exit"]
    /\ LOG_FILE' = [LOG_FILE EXCEPT !.closed = TRUE]
    /\ UNCHANGED <<config, threads, sched, inProg, worker, frameSched>>

InitSched ==
    /\ \E n \in 0..MaxRanksMap :
          /\ worker = [rank \in 1..n |-> NewWorker]
          /\ main = [pc |-> "for", todo |-> RankKeys(n), i |-> 1]
    /\ config \in [threads : PoolSizes]
    /\ threads = <<>>
    /\ sched = <<>>
    /\ inProg = <<>>
    /\ LOG_FILE = [closed |-> FALSE, refused |-> {}]
    /\ IdleCursor /\ time_ranges = <<>> /\ time_intervals = NotCalled /\ IdleRamp /\ IdleLaw
    /\ IdleFiles /\ IdleNames /\ IdleFilters /\ IdlePass /\ IdleLfsmRamp
    /\ IdleGen /\ IdleText

NextSched ==
    \/ ForRank
    \/ DrawPlotReturns
    \/ DrawPlotRaises
    \/ ForDone
    \/ WhileSched
    \/ Reap
    \/ Fill
    \/ Sleep
    \/ ThreadEnds
    \/ CloseLog

SpecSched == InitSched /\ [][NextSched]_vars

Alive == {rank \in DOMAIN worker : worker[rank].st = "alive"}

GradientMetrics == {"cursorGradMin", "cursorGradMean", "cursorGradMax"}

\* C21: on a window that selects exactly one sample the three gradient
\* metrics return the NaN sentinel and do not raise.
C21_GradOfOneSampleIsNaN ==
    (/\ metric.fun \in GradientMetrics
     /\ Len(cursorSignalsDf) >= 2
     /\ Cardinality(SelectedRows) = 1) =>
        /\ metric.res.st # "raise"
        /\ metric.res = NaN

\* the selected rows at which y has reached y0 + 0.1 * dy
ReachedRows ==
    {i \in SelectedRows :
        LET level == 10 * cursorSignalsDf[2][FirstSelected] + StepOfWindow
        IN  IF StepOfWindow > 0
            THEN 10 * cursorSignalsDf[2][i] >= level
            ELSE 10 * cursorSignalsDf[2][i] <= level}

\* C22: on a non-empty window cursorResponseDelay returns NaN when the first
\* and the last sample are equal (dy = 0); for dy # 0 it returns the time
\* from the first sample of the window to the first sample that reaches
\* y0 + 0.1 * dy.
C22_ResponseDelayToTenPercent ==
    (/\ metric.fun = "cursorResponseDelay"
     /\ Len(cursorSignalsDf) >= 2
     /\ SelectedRows # {}) =>
        IF StepOfWindow = 0
        THEN metric.res = NaN
        ELSE /\ metric.res.st = "ok"
             /\ \E i \in ReachedRows :
                   /\ \A j \in ReachedRows : i <= j
                   /\ metric.res.v[1] = cursorSignalsDf[1][i] - cursorSignalsDf[1][FirstSelected]

\* the last ten rows of the window (all of them when there are fewer)
FinalRows == {i \in SelectedRows : i > LastSelected - 10}

FinalSum == SeqSum([k \in 1..Cardinality(FinalRows) |->
                       cursorSignalsDf[2][LastSelected - Cardinality(FinalRows) + k]])

\* the selected rows farther from the mean of the final samples than 2 % of
\* the step from the first sample to that mean
OutsideBandRows ==
    LET k == Cardinality(FinalRows)
    IN  {i \in SelectedRows :
            100 * Abs(k * cursorSignalsDf[2][i] - FinalSum)
                > 2 * Abs(FinalSum - k * cursorSignalsDf[2][FirstSelected])}

\* C23: on a non-empty window cursorSettlingTime returns 0 when no sample
\* lies outside the tolerance band around the mean of the final samples (a
\* constant signal included), and otherwise the time of the last sample
\* outside the band minus the time of the first sample of the window.
C23_SettlingTimeOfBand ==
    (/\ metric.fun = "cursorSettlingTime"
     /\ Len(cursorSignalsDf) >= 2
     /\ SelectedRows # {}) =>
        /\ metric.res.st = "ok"
        /\ IF OutsideBandRows = {}
           THEN metric.res.v[1] = 0
           ELSE \E i \in OutsideBandRows :
                   /\ \A j \in OutsideBandRows : j <= i
                   /\ metric.res.v[1] = cursorSignalsDf[1][i] - cursorSignalsDf[1][FirstSelected]

(***************************************************************************)
(* The LFSM ramp-limited generator: guideLFSMRamp and idealLFSMRamp, one   *)
(* pass of the loop over the samples per step (SpecLfsmRamp).  Power is in *)
(* PuUnit-ths of a pu as in the ramp limiter, frequency in 0.01 Hz as in   *)
(* the droop laws.  Sample k of the code is element k + 1 here.            *)
(***************************************************************************)
MaxLfsmSamples == 4

\* 0.001 pu, the unit of the droop laws, in PuUnit-ths of a pu
MilliPu == PuUnit \div 1000

\* idealFSM / guideFSM on a power in PuUnit-ths of a pu
FSMInPuUnit(Pref, f, DK, s, db) ==
    LET fRU == IF DK = 1 THEN 4980 ELSE 4950
        fRO == IF DK = 1 THEN 5020 ELSE 5050
        f1 == IF f < fRU THEN fRU ELSE f
        f2 == IF f1 > fRO THEN fRO ELSE f1
        Pnew == IF f2 < fn
                THEN (IF f2 < fn - db
                      THEN Pref - MilliPu * DroopStep(s, f2 - fn + db) ELSE Pref)
                ELSE (IF f2 > fn + db
                      THEN Pref - MilliPu * DroopStep(s, f2 - fn - db) ELSE Pref)
        Pup == IF Pnew > Pref + 100 * MilliPu THEN Pref + 100 * MilliPu ELSE Pnew
    IN  IF Pup < Pref - 100 * MilliPu THEN Pref - 100 * MilliPu ELSE Pup

\* idealLFSM / guideLFSM on a power in PuUnit-ths of a pu
LFSMInPuUnit(Pref, f, DK, FSM, s_fsm, db) ==
    LET f1 == LfsmCorner(DK, f)
        s == LfsmDroop(DK)
        Pref2 == IF FSM THEN FSMInPuUnit(Pref, f, DK, s_fsm, db) ELSE Pref
        Pnew == IF (f > fn /\ f > f1) \/ (f < fn /\ f < f1)
                THEN Pref2 - MilliPu * DroopStep(s, f - f1)
                ELSE Pref2
    IN  IF Pnew >= PuUnit THEN PuUnit ELSE IF Pnew <= 0 THEN 0 ELSE Pnew

\* fLower = 0.020 Hz, fUpper = fThresh = 0.040 Hz, PThresh = 0.0001 pu
fLower == 2

fUpper == 4

fThresh == 4

PThresh == PuUnit \div 10000

\* the switches with a single threshold: back to ramping as soon as the
\* deviation is no longer above fUpper
Hysteresis_NoBand(LOWER, UPPER, dev) ==
    IF dev > fUpper THEN [LOWER |-> FALSE, UPPER |-> TRUE]
    ELSE [LOWER |-> TRUE, UPPER |-> FALSE]

\* the hysteresis switches of guideLFSMRamp after a sample with |f - fn| = dev
Hysteresis(LOWER, UPPER, dev) ==
    IF dev > fUpper THEN [LOWER |-> FALSE, UPPER |-> TRUE]
    ELSE IF dev < fLower THEN [LOWER |-> TRUE, UPPER |-> FALSE]
    ELSE [LOWER |-> LOWER, UPPER |-> UPPER]

\* the ramping branch: P[k] from P[k-1] and the setpoint P0[k], dP = m*Ts
RampToward(Pprev, P0k, dP) ==
    IF Abs(P0k - Pprev) > PThresh
    THEN IF P0k - Pprev > 0
         THEN (IF dP + Pprev > P0k THEN P0k ELSE dP + Pprev)
         ELSE (IF (-dP) + Pprev < P0k THEN P0k ELSE (-dP) + Pprev)
    ELSE Pprev

\* the LFSM branch also moving the anchor
LfsmBranch_MovesAnchor(Pref, fPrev, DK, FSM, s_fsm, db) ==
    LET Pk == LFSMInPuUnit(Pref, fPrev, DK, FSM, s_fsm, db)
    IN  [P |-> Pk, Pref |-> Pk, regime |-> "LFSM"]

\* the LFSM branch: P[k] = LFSM(Pref, fTdLpf[k-1]); Pref is left alone
LfsmBranch(Pref, fPrev, DK, FSM, s_fsm, db) ==
    [P |-> LFSMInPuUnit(Pref, fPrev, DK, FSM, s_fsm, db), Pref |-> Pref, regime |-> "LFSM"]

\* one pass of the loop of guideLFSMRamp; a is the call, fk = f[k],
\* P0k = P0[k], fPrev = fTdLpf[k-1], Pprev = P[k-1]
guideLFSMRamp(a, fk, P0k, fPrev, Pprev) ==
    LET sw == Hysteresis(a.LOWER, a.UPPER, Abs(fk - fn))
        m == guideRate(a.Pn)
    IN  IF sw.LOWER
        THEN LET Pk == RampToward(Pprev, P0k, m * a.Ts)
             IN  [P |-> Pk, Pref |-> Pk, regime |-> "ramping"] @@ sw
        ELSE IF sw.UPPER
        THEN LfsmBranch(a.Pref, fPrev, a.DK, a.FSM, a.s_fsm, a.db) @@ sw
        ELSE [P |-> Pprev, Pref |-> a.Pref, regime |-> "trapped"] @@ sw

\* one pass of the loop of idealLFSMRamp
idealLFSMRamp(a, fk, P0k, fPrev, Pprev) ==
    LET sw == [LOWER |-> a.LOWER, UPPER |-> a.UPPER]
    IN  IF Abs(fk - fn) < fThresh
        THEN LET Pk == RampToward(Pprev, P0k, mIdeal * a.Ts)
             IN  [P |-> Pk, Pref |-> Pk, regime |-> "ramping"] @@ sw
        ELSE LfsmBranch(a.Pref, fPrev, a.DK, a.FSM, a.s_fsm, a.db) @@ sw

\* |f - fn| of 0, 0.02, 0.03, 0.04 and 0.05 Hz
LfsmFreqs == {5000, 5002, 5003, 5004, 4995}

\* the delayed and filtered frequency: nominal, or 0.1 Hz above the corner
LfsmFilteredFreqs == {5000, 5030}

\* setpoints 0.1 pu and 0.115 pu
LfsmSetpoints == {PuUnit \div 10, 23 * (PuUnit \div 200)}

\* the call: P0[0] is read into Pref before the loop, P is the column filled
\* with the initial setpoint of the case
InitLfsmRamp ==
    /\ \E fun \in {"guideLFSMRamp", "idealLFSMRamp"}, Pn \in {300, 600},
          P00 \in LfsmSetpoints :
          lfsmRamp = [fun |-> fun, Pn |-> Pn, Ts |-> 3, DK |-> 1, FSM |-> FALSE,
                      s_fsm |-> 5, db |-> 0,
                      P0 |-> <<P00>>, f |-> <<fn>>, fTdLpf |-> <<>>,
                      P |-> <<PuUnit \div 10>>,
                      LOWER |-> TRUE, UPPER |-> FALSE, Pref |-> P00,
                      regime |-> <<"ramping">>, anchor |-> <<P00>>, pc |-> "for"]
    /\ IdleCursor /\ time_ranges = <<>> /\ time_intervals = NotCalled /\ IdleRamp /\ IdleLaw
    /\ IdleFiles /\ IdleNames /\ IdleFilters /\ IdlePass /\ IdleSched
    /\ IdleGen /\ IdleText

\* for k in range(1, len(P)): one more sample
LfsmRampSample ==
    /\ lfsmRamp.pc = "for"
    /\ Len(lfsmRamp.P) < MaxLfsmSamples
    /\ \E fk \in LfsmFreqs, P0k \in LfsmSetpoints, fPrev \in LfsmFilteredFreqs :
          LET Pprev == lfsmRamp.P[Len(lfsmRamp.P)]
              r == IF lfsmRamp.fun = "guideLFSMRamp"
                   THEN guideLFSMRamp(lfsmRamp, fk, P0k, fPrev, Pprev)
                   ELSE idealLFSMRamp(lfsmRamp, fk, P0k, fPrev, Pprev)
          IN  lfsmRamp' = [lfsmRamp EXCEPT
                              !.f = Append(@, fk), !.P0 = Append(@, P0k),
                              !.fTdLpf = Append(@, fPrev),
                              !.P = IF r.regime = "trapped" THEN @ ELSE Append(@, r.P),
                              !.LOWER = r.LOWER, !.UPPER = r.UPPER, !.Pref = r.Pref,
                              !.regime = Append(@, r.regime),
                              !.anchor = Append(@, r.Pref),
                              !.pc = IF r.regime = "trapped" THEN "exit" ELSE "for"]
    /\ UNCHANGED frameLfsmRamp

\* the loop is over: return P
LfsmRampReturn ==
    /\ lfsmRamp.pc = "for"
    /\ lfsmRamp' = [lfsmRamp EXCEPT !.pc = "return"]
    /\ UNCHANGED frameLfsmRamp

NextLfsmRamp == LfsmRampSample \/ LfsmRampReturn

SpecLfsmRamp == InitLfsmRamp /\ [][NextLfsmRamp]_vars

\* the samples the loop has processed so far (the first is never processed)
Processed == 2..Len(lfsmRamp.regime)

Deviation(j) == Abs(lfsmRamp.f[j] - fn)

\* C24: in guideLFSMRamp the regime is at every sample one of ramping and
\* LFSM-active, never the trapped exit; it is ramping before the first
\* sample, turns LFSM-active only at a sample with |f - fn| > 0.040 Hz, turns
\* back only at one with |f - fn| < 0.020 Hz and is unchanged at every
\* sample with 0.020 <= |f - fn| <= 0.040.
C24_HysteresisOfRegime ==
    lfsmRamp.fun = "guideLFSMRamp" =>
        /\ lfsmRamp.pc # "exit"
        /\ lfsmRamp.LOWER # lfsmRamp.UPPER
        /\ lfsmRamp.regime[1] = "ramping"
        /\ \A j \in Processed :
              /\ lfsmRamp.regime[j] \in {"ramping", "LFSM"}
              /\ (lfsmRamp.regime[j - 1] = "ramping" /\ lfsmRamp.regime[j] = "LFSM")
                    => Deviation(j) > fUpper
              /\ (lfsmRamp.regime[j - 1] = "LFSM" /\ lfsmRamp.regime[j] = "ramping")
                    => Deviation(j) < fLower
              /\ (fLower <= Deviation(j) /\ Deviation(j) <= fUpper)
                    => lfsmRamp.regime[j] = lfsmRamp.regime[j - 1]

\* out of ramping at 0.05 Hz, held through 0.03 Hz, back at 0 Hz
C24_Witness ==
    /\ lfsmRamp.fun = "guideLFSMRamp"
    /\ lfsmRamp.regime = <<"ramping", "LFSM", "LFSM", "ramping">>
    /\ Deviation(2) = 5 /\ Deviation(3) = 3 /\ Deviation(4) = 0

\* the output of the most recent sample before j processed in the ramping
\* regime, or the first setpoint sample when there was none
AnchorBefore(j) ==
    LET ramped == {i \in 2..(j - 1) : lfsmRamp.regime[i] = "ramping"}
    IN  IF ramped = {} THEN lfsmRamp.P0[1]
        ELSE lfsmRamp.P[CHOOSE i \in ramped : \A h \in ramped : h <= i]

\* C25: at every sample processed in the LFSM-active regime the output is
\* the LFSM droop law applied to the output of the most recent sample
\* processed in the ramping regime (the first setpoint sample if there was
\* none), and the sample leaves that anchor unchanged.
C25_LfsmFromRampingAnchor ==
    lfsmRamp.pc # "exit" =>
        \A j \in Processed :
            lfsmRamp.regime[j] = "LFSM" =>
                /\ lfsmRamp.P[j] = LFSMInPuUnit(AnchorBefore(j), lfsmRamp.fTdLpf[j - 1],
                                                lfsmRamp.DK, lfsmRamp.FSM, lfsmRamp.s_fsm,
                                                lfsmRamp.db)
                /\ lfsmRamp.anchor[j] = lfsmRamp.anchor[j - 1]
                /\ lfsmRamp.anchor[j] = AnchorBefore(j)

\* a ramping sample, then two LFSM-active samples with the droop acting
C25_Witness ==
    /\ Len(lfsmRamp.regime) = 4
    /\ lfsmRamp.regime = <<"ramping", "ramping", "LFSM", "LFSM">>
    /\ lfsmRamp.P[2] # lfsmRamp.P0[1]
    /\ lfsmRamp.P[3] < lfsmRamp.P[2]
    /\ lfsmRamp.P[4] = lfsmRamp.P[3]
    /\ lfsmRamp.anchor[4] = lfsmRamp.P[2]

\* min(0.2, 60/Pn)/60 pu/s
CappedRate(Pn) == Min2(PuUnit \div 5, 60 * (PuUnit \div Pn)) \div 60

\* C26: at every sample k processed in the ramping regime
\* |P[k] - P[k-1]| <= m*Ts with m the capped ramp rate, and P[k] lies between
\* P[k-1] and the setpoint P0[k], also right after an LFSM-active period.
C26_RampingStepCapped ==
    lfsmRamp.pc # "exit" =>
        \A j \in Processed :
            lfsmRamp.regime[j] = "ramping" =>
                /\ Abs(lfsmRamp.P[j] - lfsmRamp.P[j - 1])
                      <= CappedRate(lfsmRamp.Pn) * lfsmRamp.Ts
                /\ lfsmRamp.P[j - 1] < lfsmRamp.P0[j]
                      => (lfsmRamp.P[j - 1] <= lfsmRamp.P[j] /\ lfsmRamp.P[j] <= lfsmRamp.P0[j])
                /\ lfsmRamp.P[j - 1] > lfsmRamp.P0[j]
                      => (lfsmRamp.P0[j] <= lfsmRamp.P[j] /\ lfsmRamp.P[j] <= lfsmRamp.P[j - 1])

(***************************************************************************)
(* addCursorMetrics: the text of one metric row (SpecText)                 *)
(*                                                                         *)
(* One pass of the inner loop for one option and one interval: the         *)
(* functions the branch of the option calls, their results and the label   *)
(* the text starts with.  Where the label depends on the result (rise or   *)
(* fall, metric error) the model keeps the common stem.                    *)
(***************************************************************************)
\* the elif chain on option.name: the label of the branch and the metric
\* functions it calls
OptionBranch(option) ==
    CASE option = "START" -> [label |-> "Start", funs |-> <<"cursorStart">>]
      [] option = "END" -> [label |-> "End", funs |-> <<"cursorEnd">>]
      [] option = "DELTA" -> [label |-> "Delta", funs |-> <<"cursorDelta">>]
      [] option = "MIN" -> [label |-> "Min", funs |-> <<"cursorMin">>]
      [] option = "MAX" -> [label |-> "Max", funs |-> <<"cursorMax">>]
      [] option = "MEAN" -> [label |-> "Mean", funs |-> <<"cursorMean">>]
      [] option = "GRAD_MIN" -> [label |-> "Grad (min)", funs |-> <<"cursorGradMin">>]
      [] option = "GRAD_MAX" -> [label |-> "Grad (mean)", funs |-> <<"cursorGradMax">>]
      [] option = "GRAD_MEAN" -> [label |-> "Grad (max)", funs |-> <<"cursorGradMean">>]
      [] option = "RESPONSE" -> [label |-> "Response delay", funs |-> <<"cursorResponseDelay">>]
      [] option = "RISE_FALL" -> [label |-> "Rise/Fall time", funs |-> <<"cursorRiseFallTime">>]
      [] option = "SETTLING" -> [label |-> "Settling time", funs |-> <<"cursorSettlingTime">>]
      [] option = "OVERSHOOT" -> [label |-> "Overshoot", funs |-> <<"cursorPeakOvershoot">>]
      [] option = "FSM_DROOP" -> [label |-> "FSM droop value", funs |-> <<"cursorFSMDroop">>]
      [] option = "LFSM_DROOP" -> [label |-> "LFSM droop value", funs |-> <<"cursoLFSMDroop">>]
      [] option = "QU_T1" ->
            [label |-> "Q(U) t1 rise/fall time",
             funs |-> <<"cursorResponseDelay", "cursorRiseFallTime">>]
      [] option = "QU_T2" -> [label |-> "Q(U) t2 settling time", funs |-> <<"cursorSettlingTime">>]
      [] option = "QU_DROOP" -> [label |-> "Q(U) droop value", funs |-> <<"cursorQUDroop">>]
      [] option = "QU_SS_TOL" ->
            [label |-> "Q(U) steady-state tolerance", funs |-> <<"cursorQUSSTol">>]
      [] option = "DELTA_FFC" -> [label |-> "FFC required", funs |-> <<"cursorDeltaFFC">>]
      [] OTHER -> [label |-> "not defined", funs |-> <<>>]

\* the text appended to cursorMetricData, or the exception of a metric
\* function, which addCursorMetrics does not catch
TextOf(option, df, time_interval, cfg) ==
    LET branch == OptionBranch(option)
        values == [k \in 1..Len(branch.funs) |-> CallMetric(branch.funs[k], df, time_interval, cfg)]
        raised == {k \in 1..Len(values) : values[k].st = "raise"}
    IN  [option |-> option, time_interval |-> time_interval, cfg |-> cfg,
         exc |-> IF raised = {} THEN ""
                 ELSE values[CHOOSE k \in raised : \A j \in raised : k <= j].exc,
         label |-> IF raised = {} THEN branch.label ELSE "",
         values |-> IF raised = {} THEN values ELSE <<>>]

\* signal tables of the pass: three samples of a signal, or two samples of
\* a signal and an auxiliary column
TextTables ==
    {df \in TablesOfLen(3) : Len(df) = 2} \cup {df \in TablesOfLen(2) : Len(df) = 3}

\* the intervals of the pass; (0,) and (0, 2) take in three distinct times
TextIntervals == Intervals \cup {<<0>>, <<0, 2>>}

NoText ==
    [option |-> "", time_interval |-> <<>>, cfg |-> Cfg("DK1", 150), exc |-> "", label |-> "",
     values |-> <<>>]

AppendText ==
    /\ cursorMetricText = NoText
    /\ \E option \in CursorType, iv \in TextIntervals, cfg \in Cfgs :
          /\ option \notin ThreeColumnOptions => cfg = Cfg("DK1", 150)
          /\ cursorMetricText' = TextOf(option, cursorSignalsDf, iv, cfg)
    /\ UNCHANGED frameText

InitText ==
    /\ cursorSignalsDf \in TextTables
    /\ metric = NoCall
    /\ cursorMetricText = NoText
    /\ IdleIntervals /\ IdleRamp /\ IdleLaw
    /\ IdleFiles /\ IdleNames /\ IdleFilters /\ IdlePass /\ IdleSched /\ IdleLfsmRamp
    /\ IdleGen

NextText == AppendText

SpecText == InitText /\ [][NextText]_vars

\* the text of a row was written
TextWritten == cursorMetricText.option # "" /\ cursorMetricText.exc = ""

\* C29: the text of a row carries the label of the requested kind and the
\* value of that kind's function: GRAD_MIN rows 'Grad (min)' with the minimum
\* gradient, GRAD_MAX rows 'Grad (max)' with the maximum gradient, GRAD_MEAN
\* rows 'Grad (mean)' with the mean gradient; no member of CursorType falls
\* through to the 'not defined' branch.
C29_TextOfRequestedKind ==
    TextWritten =>
        LET text == cursorMetricText
            df == cursorSignalsDf
        IN  /\ text.option = "GRAD_MIN" =>
                  /\ text.label = "Grad (min)"
                  /\ text.values = <<cursorGradMin(df, text.time_interval)>>
            /\ text.option = "GRAD_MAX" =>
                  /\ text.label = "Grad (max)"
                  /\ text.values = <<cursorGradMax(df, text.time_interval)>>
            /\ text.option = "GRAD_MEAN" =>
                  /\ text.label = "Grad (mean)"
                  /\ text.values = <<cursorGradMean(df, text.time_interval)>>
            /\ text.option \in CursorType => text.label # "not defined"

(***************************************************************************)
(* genIdealResults and genGuideResults (SpecGen)                           *)
(*                                                                         *)
(* One call of a reference generator.  The case name is the set of the     *)
(* substrings the generator tests for that occur in it; the returned table *)
(* is the set of its column names.  The rows are those of the fault        *)
(* current loop: time in seconds, the positive sequence voltage in 0.01    *)
(* pu and the row's reactive current in IqUnit (fft_pos_Iq_pu for the      *)
(* ideal generator, Q / Upos of the active Q control for the guide).  The  *)
(* asserts on 'Event 1' of the P_step block hold in the inputs.            *)
(***************************************************************************)
MaxGenRows == 2

\* tThresh = -1
tThresh == -1

\* 'token' in caseDf['Case']['Name'].squeeze()
InName(token, Name) == token \in Name

\* the threshold of the generators' fault current block: DK alone decides
genFrtLimit(DK, DSO) == IF DK = 1 THEN 85 ELSE 90

\* the Q control the guide takes the row's reactive current from
QCtrl(Qmode, Qdefault) ==
    IF Qmode = "Default" THEN Qdefault ELSE Qmode

PStepBlock(Name) ==
    IF InName("P_step", Name)
    THEN [pairs |-> <<<<"Ppoc", "P_pu_PoC_Ramp">>>>, cols |-> {"P_pu_PoC_Ramp"}]
    ELSE [pairs |-> <<>>, cols |-> {}]

\* the blocks of genIdealResults before the fault current block: the
\* (figure, signal) pairs appended and the columns added to idealData
IdealBlocks(Name, Qmode) ==
    LET lfsmBlock == IF InName("FSM", Name) \/ InName("RoCoF", Name) \/ InName("ROCOF", Name)
                THEN [pairs |-> (IF ~InName("pstep", Name)
                                 THEN <<<<"Ppoc", "P_pu_LFSM_FFR">>>> ELSE <<>>)
                                \o <<<<"Ppoc", "P_pu_LFSM_Ramp">>>>,
                      cols |-> {"f_hz_Td", "f_hz_Td_Lpf", "P_pu_LFSM_Ramp"}
                               \cup (IF ~InName("pstep", Name) THEN {"P_pu_LFSM_FFR"} ELSE {})]
                ELSE [pairs |-> <<>>, cols |-> {}]
        qBlock == IF Qmode = "Q"
             THEN [pairs |-> <<<<"Qpoc", "Q_pu_PoC">>>>, cols |-> {"Q_pu_PoC", "Q_pu_PoC_Lpf"}]
             ELSE [pairs |-> <<>>, cols |-> {}]
        quBlock == IF Qmode = "Q(U)"
              THEN [pairs |-> <<<<"Qpoc", "Q_pu_QU">>, <<"Qpoc", "Q_pu_QU_Lpf">>>>,
                    cols |-> {"Q_pu_QU", "Q_pu_QU_Lpf"}]
              ELSE [pairs |-> <<>>, cols |-> {}]
        pfBlock == IF Qmode = "PF"
              THEN [pairs |-> <<<<"Qpoc", "Q_pu_Qpf_Lpf">>>>, cols |-> {"Q_pu_Qpf", "Q_pu_Qpf_Lpf"}]
              ELSE [pairs |-> <<>>, cols |-> {}]
        pBlock == PStepBlock(Name)
    IN  [pairs |-> pBlock.pairs \o lfsmBlock.pairs \o qBlock.pairs \o quBlock.pairs \o pfBlock.pairs,
         cols |-> pBlock.cols \cup lfsmBlock.cols \cup qBlock.cols \cup quBlock.cols \cup pfBlock.cols]

\* the same for genGuideResults
GuideBlocks(Name, Qmode, Qdefault) ==
    LET plainStep == InName("step", Name) /\ ~InName("pstep", Name)
        lfsmBlock == IF InName("FSM", Name)
                THEN [pairs |-> (IF plainStep THEN <<<<"Ppoc", "P_pu_LFSM_FFR">>>> ELSE <<>>)
                                \o <<<<"Ppoc", "P_pu_LFSM_Ramp">>>>
                                \o (IF ~InName("step", Name) \/ InName("pstep", Name)
                                    THEN <<<<"Ppoc", "P_pu_LFSM_Ramp_2s">>>> ELSE <<>>),
                      cols |-> {"f_hz_Td", "f_hz_Td_Lpf", "P_pu_LFSM_Ramp"}
                               \cup (IF plainStep THEN {"P_pu_LFSM_FFR"} ELSE {})
                               \cup (IF ~InName("step", Name) \/ InName("pstep", Name)
                                     THEN {"P_pu_LFSM_Ramp_2s"} ELSE {})]
                ELSE [pairs |-> <<>>, cols |-> {}]
        qBlock == IF Qmode = "Q" \/ (Qmode = "Default" /\ Qdefault = "Q")
             THEN [pairs |-> <<<<"Qpoc", "Q_pu_Q_Ctrl">>>>, cols |-> {"Q_pu_Q_Ctrl"}]
             ELSE [pairs |-> <<>>, cols |-> {}]
        quBlock == IF Qmode = "Q(U)" \/ (Qmode = "Default" /\ Qdefault = "Q(U)")
              THEN [pairs |-> <<<<"Qpoc", "Q_pu_QU_Ctrl">>>>,
                    cols |-> {"Q_pu_QU_Inst", "Q_pu_QU_Ctrl"}]
              ELSE [pairs |-> <<>>, cols |-> {}]
        pfBlock == IF Qmode = "PF" \/ (Qmode = "Default" /\ Qdefault = "PF")
              THEN [pairs |-> <<<<"Qpoc", "Q_pu_Qpf_Ctrl">>>>,
                    cols |-> {"Q_pu_Qpf_Inst", "Q_pu_Qpf_Ctrl"}]
              ELSE [pairs |-> <<>>, cols |-> {}]
        pBlock == PStepBlock(Name)
    IN  [pairs |-> pBlock.pairs \o lfsmBlock.pairs \o qBlock.pairs \o quBlock.pairs \o pfBlock.pairs,
         cols |-> pBlock.cols \cup lfsmBlock.cols \cup qBlock.cols \cup quBlock.cols \cup pfBlock.cols]

\* 'FRT' in Name or 'Fault' in Name or 'support' in Name
FfcCase(Name) == InName("FRT", Name) \/ InName("Fault", Name) \/ InName("support", Name)

\* one pass of the loop over the rows of the fault current block
FfcRow(g, row) ==
    IF row.time < tThresh
    THEN [skipped |-> TRUE, noFrt |-> FALSE, Iq0 |-> g.Iq0, IqFFC |-> 0]
    ELSE LET noFrt == row.Upos >= genFrtLimit(g.DK, g.DSO)
             Iq0 == IF ~noFrt THEN g.Iq0
                    ELSE IF g.fun = "genIdealResults" THEN row.Iq
                    ELSE IF QCtrl(g.Qmode, g.Qdefault) \in {"Q", "Q(U)", "PF"} THEN row.Iq
                    ELSE g.Iq0
         IN  [skipped |-> FALSE, noFrt |-> noFrt, Iq0 |-> Iq0,
              IqFFC |-> IF g.fun = "genIdealResults"
                        THEN idealFFC(row.Upos, Iq0, g.DK, g.DSO)
                        ELSE guideFFC(row.Upos, Iq0, g.DK, g.DSO)]

Generators == {"genIdealResults", "genGuideResults"}

\* case names, by the substrings they contain
CaseNames ==
    {{}, {"P_step", "step"}, {"FSM"}, {"FSM", "step"}, {"FSM", "pstep", "step"}, {"RoCoF"},
     {"FRT"}}

QSettings ==
    {<<"Q", "Q">>, <<"Q(U)", "Q">>, <<"PF", "Q">>, <<"Default", "Q">>, <<"Default", "PF">>}

GenRowVals == [time : {-2, 0}, Upos : {50, 87, 90}, Iq : {IqUnit \div 10}]

GenRows(Name) ==
    IF FfcCase(Name) THEN UNION {[1..n -> GenRowVals] : n \in 0..MaxGenRows} ELSE {<<>>}

\* the blocks before the fault current block, or the else branch of a
\* result that is not an EMT result
GenBlocks ==
    /\ gen.pc = "blocks"
    /\ IF gen.typ \in EmtTypes
       THEN LET b == IF gen.fun = "genIdealResults"
                     THEN IdealBlocks(gen.Name, gen.Qmode)
                     ELSE GuideBlocks(gen.Name, gen.Qmode, gen.Qdefault)
            IN  gen' = [gen EXCEPT
                           !.figs = <<"">> \o [i \in 1..Len(b.pairs) |-> b.pairs[i][1]],
                           !.signals = <<"">> \o [i \in 1..Len(b.pairs) |-> b.pairs[i][2]],
                           !.data = {"time"} \cup b.cols,
                           !.pc = IF FfcCase(gen.Name) THEN "ffc" ELSE "return"]
       ELSE gen' = [gen EXCEPT !.figs = <<"">>, !.signals = <<>>, !.data = {}, !.pc = "return"]
    /\ UNCHANGED frameGen

\* for i, row in ...iterrows(): one row
GenFfcRow ==
    /\ gen.pc = "ffc"
    /\ Len(gen.out) < Len(gen.rows)
    /\ LET r == FfcRow(gen, gen.rows[Len(gen.out) + 1])
       IN  gen' = [gen EXCEPT !.out = Append(@, r), !.Iq0 = r.Iq0]
    /\ UNCHANGED frameGen

\* the loop is through: the pair of the fault current block is appended
GenFfcDone ==
    /\ gen.pc = "ffc"
    /\ Len(gen.out) = Len(gen.rows)
    /\ gen' = [gen EXCEPT !.figs = Append(@, "Ireactive"),
                          !.signals = Append(@, "Iq_pu_FFC"),
                          !.data = @ \cup {"Iq_pu_FFC"},
                          !.pc = "return"]
    /\ UNCHANGED frameGen

\* return returnDict
GenReturn ==
    /\ gen.pc = "return"
    /\ gen' = [gen EXCEPT !.pc = "returned"]
    /\ UNCHANGED frameGen

InitGen ==
    /\ \E fun \in Generators, typ \in ResultTypes, Name \in CaseNames, q \in QSettings,
          DK \in {1, 2}, DSO \in BOOLEAN :
          \E rows \in GenRows(Name) :
             gen = [fun |-> fun, typ |-> typ, Name |-> Name, Qmode |-> q[1], Qdefault |-> q[2],
                    DK |-> DK, DSO |-> DSO, rows |-> rows, Iq0 |-> 0, out |-> <<>>,
                    figs |-> <<>>, signals |-> <<>>, data |-> {}, pc |-> "blocks"]
    /\ IdleCursor /\ time_ranges = <<>> /\ time_intervals = NotCalled /\ IdleRamp /\ IdleLaw
    /\ IdleFiles /\ IdleNames /\ IdleFilters /\ IdlePass /\ IdleSched /\ IdleLfsmRamp
    /\ IdleText

NextGen == GenBlocks \/ GenFfcRow \/ GenFfcDone \/ GenReturn

SpecGen == InitGen /\ [][NextGen]_vars

\* C27: for every area and connection the voltage threshold by which the
\* generators decide to keep updating Iq0 is the fault-ride-through
\* threshold of idealFFC / guideFFC: every sample is in fault for both the
\* generator and the law or for neither.
C27_GeneratorAndLawAgreeOnFault ==
    \A k \in 1..Len(gen.out) :
        ~gen.out[k].skipped =>
            (gen.out[k].noFrt <=> gen.rows[k].Upos >= FrtLimit(gen.DK, gen.DSO))

\* the chart group of a derived signal
ChartGroup(signal) ==
    CASE signal = "" -> ""
      [] signal \in {"P_pu_PoC_Ramp", "P_pu_LFSM_FFR", "P_pu_LFSM_Ramp", "P_pu_LFSM_Ramp_2s"} -> "Ppoc"
      [] signal = "Iq_pu_FFC" -> "Ireactive"
      [] OTHER -> "Qpoc"

\* C28: for every result kind and case the returned 'figs' and 'signals'
\* have the same length, figs[i] is the chart group of signals[i], and every
\* entry of 'signals' but the placeholder is a column of 'data'.
C28_FigsIndexSignals ==
    gen.pc = "returned" =>
        /\ Len(gen.figs) = Len(gen.signals)
        /\ \A i \in 1..Len(gen.signals) :
              /\ i \in DOMAIN gen.figs /\ gen.figs[i] = ChartGroup(gen.signals[i])
              /\ gen.signals[i] # "" => gen.signals[i] \in gen.data
====
